---------------------------- MODULE Spec2Model ----------------------------
(***************************************************************************)
(* A model of rune's level data model and BSP engine: the child-tag        *)
(* decoder and the raw node tree of src/src/wad.rs, the node pass of       *)
(* Level::new and the point-location functions of src/src/level.rs.        *)
(*                                                                         *)
(* Nine specifications share the module:                                   *)
(*   Spec          the node lump is decoded, the raw tree and the          *)
(*                 assembled Level are built, and the BSP queries run;     *)
(*   SpecBehind    Node::is_point_behind as a pure function of its inputs; *)
(*   SpecChild     WadFile::get_child over every 16-bit tag;               *)
(*   SpecLoad      WadFile::load_from: header, directory, the scan for     *)
(*                 map markers and the ten lumps of each level;            *)
(*   SpecAssembly  the index fields decoded from disk and Level::new's     *)
(*                 passes over sectors, sidedefs, linedefs, segments and   *)
(*                 subsectors;                                             *)
(*   SpecBBox      WadFile::get_bbox;                                      *)
(*   SpecName      WadFile::get_8char_string;                              *)
(*   SpecInterface Interface::run and Interface::handle_input of           *)
(*                 src/src/interface.rs;                                   *)
(*   SpecVisible   Renderer::is_seg_visible of src/src/renderer.rs.        *)
(*                                                                         *)
(* Rust integer arithmetic depends on the build profile: with overflow     *)
(* checks (the debug profile) an overflowing +, - panics, without them     *)
(* (the release profile) it wraps.  overflow_checks is that setting,       *)
(* debug_assertions the one that compiles debug_assert! in or out.         *)
(***************************************************************************)
EXTENDS Integers, Sequences, FiniteSets, TLC

VARIABLES
    overflow_checks,  \* build profile: TRUE = arithmetic overflow panics
    pc,               \* position of the program
    node_count,       \* node_lump.size / 28
    subsectors,       \* number of records decoded from the SSECTORS lump
    map_nodes,        \* Vec<MapNode> decoded so far, in file order
    nodes,            \* LevelData.nodes: outcome of Node::new on the root
    level,            \* outcome of Level::new (nodes map and root_node)
    player,           \* player position truncated to i16, [x, y]
    query,            \* the last BSP query made and what it returned
    this,             \* SpecBehind: the node is_point_behind is called on
    arg,              \* SpecBehind: the point (x, y)
    behind,           \* SpecBehind: outcome of is_point_behind
    bytes,            \* SpecChild, SpecBBox: the bytes handed to the decoder
    child,            \* SpecChild: outcome of get_child
    debug_assertions, \* build profile: TRUE = debug_assert! is compiled in
    file,             \* SpecLoad: the archive read by load_from
    directory,        \* SpecLoad: Vec<FileLump> decoded so far
    lump_idx,         \* SpecLoad: the loop variable of both loops of load_from
    cur,              \* SpecLoad: the level whose lumps are being decoded
    wad_levels,       \* SpecLoad: the Vec<LevelData> named levels: those pushed so far
    disk,             \* SpecAssembly: the 16-bit index fields as they are on disk
    level_data,       \* SpecAssembly: LevelData, the raw records decoded from disk
    assembled,        \* SpecAssembly: outcome of Level::new on data
    bbox,             \* SpecBBox: outcome of get_bbox
    lump_name,        \* SpecName: outcome of get_8char_string
    atan,             \* SpecVisible: what atan2 gave for the two vertices
    visible,          \* SpecVisible: outcome of is_seg_visible
    wad,              \* SpecInterface: wad.levels, the things of each level
    interface,        \* SpecInterface: the Interface that run is called on
    panic_message,    \* SpecInterface: what the process panicked with, if it did
    current_level     \* SpecInterface: current_level of Interface::run

vars == <<overflow_checks, pc, node_count, subsectors, map_nodes, nodes, level,
          player, query,
          this, arg, behind, bytes, child,
          debug_assertions, file, directory, lump_idx, cur, wad_levels,
          disk, level_data, assembled, bbox,
          lump_name, atan, visible, wad, interface, panic_message, current_level>>

treeVars == <<node_count, subsectors, map_nodes, nodes, level, player, query>>
behindVars == <<this, arg, behind>>
childVars == <<bytes, child>>
loadVars == <<debug_assertions, file, directory, lump_idx, cur, wad_levels>>
asmVars == <<disk, level_data, assembled>>
bboxVars == <<bbox>>
nameVars == <<lump_name>>
visVars == <<atan, visible>>
uiVars == <<wad, interface, panic_message, current_level>>

NONE == [status |-> "none"]
PANIC == [status |-> "panic"]

-----------------------------------------------------------------------------
(* Bounds of the model. *)

\* most node records in the NODES lump
MaxNodes == 2
\* most subsector records in the SSECTORS lump
MaxSubsectors == 2
\* largest levels argument handed to find_partial / draw_bsp_search
MaxLevels == 2
\* SpecBehind samples the 16-bit range at its two ends and within Spread of 0
Spread == 1

-----------------------------------------------------------------------------
(* Fixed-width integers. *)

I16_MIN == -32768
I16_MAX == 32767
U16_MOD == 65536

InI16(v) == I16_MIN <= v /\ v <= I16_MAX

\* `as i16` and wrapping i16 arithmetic: the value modulo 2^16, as a signed number
AsI16(v) == ((v - I16_MIN) % U16_MOD) + I16_MIN

\* bit k of the unsigned 16-bit value v
Bit(v, k) == (v \div (2 ^ k)) % 2

RECURSIVE BitAndFrom(_, _, _)
BitAndFrom(a, b, k) ==
    IF k = 16 THEN 0
    ELSE (IF Bit(a, k) = 1 /\ Bit(b, k) = 1 THEN 2 ^ k ELSE 0) + BitAndFrom(a, b, k + 1)

\* u16 & u16
BitAnd(a, b) == BitAndFrom(a, b, 0)

RECURSIVE BitXorFrom(_, _, _)
BitXorFrom(a, b, k) ==
    IF k = 16 THEN 0
    ELSE (IF Bit(a, k) # Bit(b, k) THEN 2 ^ k ELSE 0) + BitXorFrom(a, b, k + 1)

\* u16 ^ u16
BitXor(a, b) == BitXorFrom(a, b, 0)

\* u16::from_le_bytes([b0, b1])
U16FromLeBytes(b) == b[1] + 256 * b[2]

-----------------------------------------------------------------------------
(* WadFile::get_child: the child tag of a node record. *)

ChildIdxNode(i) == [kind |-> "Node", idx |-> i]
ChildIdxSubsector(i) == [kind |-> "Subsector", idx |-> i]

get_child_no_sentinel(b) ==
    LET val == U16FromLeBytes(b)
    IN  IF BitAnd(val, 32768) = 0
        THEN ChildIdxNode(AsI16(val))
        ELSE ChildIdxSubsector(AsI16(BitXor(val, 32768)))

get_child(b) ==
    LET val == U16FromLeBytes(b)
    IN  IF BitAnd(val, 32768) = 0
        THEN ChildIdxNode(AsI16(val))
        ELSE IF val = 65535
             THEN ChildIdxSubsector(0)
             ELSE ChildIdxSubsector(AsI16(BitXor(val, 32768)))

-----------------------------------------------------------------------------
(* Node::is_point_behind, the same text in wad.rs and level.rs.  n carries  *)
(* partition_x, partition_y, delta_x, delta_y; the outcome is              *)
(* [status |-> "ok", value |-> BOOLEAN] or PANIC (an overflow caught by    *)
(* the overflow checks).                                                   *)

Ok(v) == [status |-> "ok", value |-> v]

\* the general branch, lines 186-189: six i16 additions and subtractions,
\* each result widened to i32 only after it was computed in 16 bits
cross_product_test(n, x, y, checks) ==
    LET x2e == n.partition_x + n.delta_x
        y2e == n.partition_y + n.delta_y
        x2  == AsI16(x2e)
        y2  == AsI16(y2e)
        ae  == x2 - n.partition_x
        be  == y - n.partition_y
        ce  == y2 - n.partition_y
        de  == x - n.partition_x
        overflow == ~(InI16(x2e) /\ InI16(y2e) /\ InI16(ae) /\ InI16(be)
                      /\ InI16(ce) /\ InI16(de))
    IN  IF checks /\ overflow
        THEN PANIC
        ELSE Ok(AsI16(ae) * AsI16(be) > AsI16(ce) * AsI16(de))

is_point_behind_le_flipped(n, x, y, checks) ==
    IF n.delta_x = 0
    THEN IF x < n.partition_x THEN Ok(n.delta_y > 0) ELSE Ok(n.delta_y < 0)
    ELSE IF n.delta_y = 0
         THEN IF y < n.partition_y THEN Ok(n.delta_x < 0) ELSE Ok(n.delta_x > 0)
         ELSE cross_product_test(n, x, y, checks)

is_point_behind_horizontal_sign(n, x, y, checks) ==
    IF n.delta_x = 0
    THEN IF x <= n.partition_x THEN Ok(n.delta_y > 0) ELSE Ok(n.delta_y < 0)
    ELSE IF n.delta_y = 0
         THEN IF y <= n.partition_y THEN Ok(n.delta_x > 0) ELSE Ok(n.delta_x < 0)
         ELSE cross_product_test(n, x, y, checks)

is_point_behind(n, x, y, checks) ==
    IF n.delta_x = 0
    THEN IF x <= n.partition_x THEN Ok(n.delta_y > 0) ELSE Ok(n.delta_y < 0)
    ELSE IF n.delta_y = 0
         THEN IF y <= n.partition_y THEN Ok(n.delta_x < 0) ELSE Ok(n.delta_x > 0)
         ELSE cross_product_test(n, x, y, checks)

-----------------------------------------------------------------------------
(* The raw node tree: Node::new, called by load_from on the last record of *)
(* the NODES lump after popping it off map_nodes.  A subsector leaf is a   *)
(* clone of subsectors[ssec]; the model keeps its index ssec.              *)

STACK_OVERFLOW == [status |-> "stack_overflow"]

ChildNODE(n) == [kind |-> "NODE", node |-> n]
ChildSUBSECTOR(s) == [kind |-> "SUBSECTOR", ss |-> s]

\* Vec::get(i as usize) / Vec index: inside the vector or not
InVec(i, len) == 0 <= i /\ i < len

\* depth counts the frames of Node::new on the stack.  A chain of node
\* children longer than the records there are repeats a record, and the
\* recursion from that record never ends: the stack overflows.
RECURSIVE Node_new(_, _, _, _)
Node_new(n, mn, subs, depth) ==
    LET build(c) ==
            IF c.kind = "Node"
            THEN IF ~InVec(c.idx, Len(mn)) THEN PANIC
                 ELSE IF depth > Len(mn) THEN STACK_OVERFLOW
                 ELSE LET r == Node_new(mn[c.idx + 1], mn, subs, depth + 1)
                      IN  IF r.status = "ok"
                          THEN [status |-> "ok", child |-> ChildNODE(r.node)]
                          ELSE r
            ELSE IF ~InVec(c.idx, subs) THEN PANIC
                 ELSE [status |-> "ok", child |-> ChildSUBSECTOR(c.idx)]
        l == build(n.left_child)
    IN  IF l.status # "ok" THEN l
        ELSE LET r == build(n.right_child)
             IN  IF r.status # "ok" THEN r
                 ELSE [status |-> "ok",
                       node |-> [partition_x |-> n.partition_x,
                                 partition_y |-> n.partition_y,
                                 delta_x |-> n.delta_x,
                                 delta_y |-> n.delta_y,
                                 right_child |-> r.child,
                                 left_child |-> l.child]]

\* load_from taking the first record of the lump as the root
load_nodes_first_record(mn, subs) ==
    IF Len(mn) = 0 THEN PANIC
    ELSE Node_new(mn[1], SubSeq(mn, 2, Len(mn)), subs, 1)

\* load_from, lines 444-449: map_nodes.pop().unwrap(), then Node::new
load_nodes(mn, subs) ==
    IF Len(mn) = 0 THEN PANIC
    ELSE Node_new(mn[Len(mn)], SubSeq(mn, 1, Len(mn) - 1), subs, 1)

-----------------------------------------------------------------------------
(* The node pass of Level::new: the records in file order, each child      *)
(* looked up among the nodes built so far (a HashMap keyed by idx as i16)  *)
(* or in the subsector vector.  A child is an Rc: the model keeps the key. *)

ChildRcNode(k) == [kind |-> "NODE", rc |-> k]
ChildRcSubsector(s) == [kind |-> "SUBSECTOR", rc |-> s]

\* resolve_child taking a node index without looking it up
resolve_child_unchecked(c, built, subs) ==
    IF c.kind = "Subsector"
    THEN IF InVec(c.idx, subs)
         THEN [status |-> "ok", child |-> ChildRcSubsector(c.idx)]
         ELSE PANIC
    ELSE [status |-> "ok", child |-> ChildRcNode(c.idx)]

\* lines 264-275: the match on data.left_child and on data.right_child
resolve_child(c, built, subs) ==
    IF c.kind = "Subsector"
    THEN IF InVec(c.idx, subs)
         THEN [status |-> "ok", child |-> ChildRcSubsector(c.idx)]
         ELSE PANIC
    ELSE IF c.idx \in DOMAIN built
         THEN [status |-> "ok", child |-> ChildRcNode(c.idx)]
         ELSE PANIC

\* the Node literal of lines 276-285: right_child: left, left_child: right
assemble_node(data, left, right) ==
    [partition_x |-> data.partition_x, partition_y |-> data.partition_y,
     delta_x |-> data.delta_x, delta_y |-> data.delta_y,
     right_child |-> left, left_child |-> right]

RECURSIVE node_pass(_, _, _, _)
node_pass(mn, subs, i, built) ==
    IF i > Len(mn) THEN [status |-> "ok", nodes |-> built]
    ELSE LET data  == mn[i]
             left  == resolve_child(data.left_child, built, subs)
             right == resolve_child(data.right_child, built, subs)
         IN  IF left.status # "ok" \/ right.status # "ok" THEN PANIC
             ELSE node_pass(mn, subs, i + 1,
                            built @@ (AsI16(i - 1) :> assemble_node(data, left.child, right.child)))

\* Level::new, lines 262-288.  <<>> is the empty map.  With no node at all
\* nodes.len() - 1 overflows (a panic) or wraps to a key that is not there
\* (a panic of the index).
Level_new(mn, subs) ==
    LET pass == node_pass(mn, subs, 1, <<>>)
    IN  IF pass.status # "ok" THEN PANIC
        ELSE LET n == Cardinality(DOMAIN pass.nodes)
             IN  IF n = 0 THEN PANIC
                 ELSE [status |-> "ok", nodes |-> pass.nodes, root_node |-> AsI16(n - 1)]

-----------------------------------------------------------------------------
(* Point location.  Each function returns its outcome with the steps it    *)
(* took: per step the node it stood on, what is_point_behind answered and  *)
(* the child it went to.                                                   *)

Step(n, b, c) == [node |-> n, behind |-> b, child |-> c]
Panicked(steps) == [status |-> "panic", steps |-> steps]
Returned(steps, c) == [status |-> "ok", steps |-> steps, child |-> c]
Prepend(st, r) == [r EXCEPT !.steps = <<st>> \o r.steps]

\* wad.rs Node::find with the two children exchanged
RECURSIVE find_children_exchanged(_, _, _, _)
find_children_exchanged(self, x, y, checks) ==
    LET b == is_point_behind(self, x, y, checks)
    IN  IF b.status = "panic" THEN Panicked(<<>>)
        ELSE LET c == IF b.value THEN self.right_child ELSE self.left_child
             IN  IF c.kind = "NODE"
                 THEN Prepend(Step(self, b.value, c), find_children_exchanged(c.node, x, y, checks))
                 ELSE Returned(<<Step(self, b.value, c)>>, c)

\* wad.rs Node::find, on the raw tree
RECURSIVE find(_, _, _, _)
find(self, x, y, checks) ==
    LET b == is_point_behind(self, x, y, checks)
    IN  IF b.status = "panic" THEN Panicked(<<>>)
        ELSE LET c == IF b.value THEN self.left_child ELSE self.right_child
             IN  IF c.kind = "NODE"
                 THEN Prepend(Step(self, b.value, c), find(c.node, x, y, checks))
                 ELSE Returned(<<Step(self, b.value, c)>>, c)

\* level.rs Node::_find, on the assembled tree: ns is Level.nodes, self a key
RECURSIVE _find(_, _, _, _, _)
_find(ns, self, x, y, checks) ==
    LET b == is_point_behind(ns[self], x, y, checks)
    IN  IF b.status = "panic" THEN Panicked(<<>>)
        ELSE LET c == IF b.value THEN ns[self].left_child ELSE ns[self].right_child
             IN  IF c.kind = "NODE"
                 THEN Prepend(Step(self, b.value, c), _find(ns, c.rc, x, y, checks))
                 ELSE Returned(<<Step(self, b.value, c)>>, c)

\* a u32 is kept as its residue modulo 2^32 in the signed range, so that
\* 0 - 1 = u32::MAX is -1: equality with 1 and further decrements are exact
u32_decrement(levels, checks) ==
    IF levels = 0 /\ checks THEN PANIC ELSE Ok(levels - 1)

\* level.rs Node::find_partial returning at levels == 0 instead of levels == 1
RECURSIVE find_partial_off_by_one(_, _, _, _, _, _)
find_partial_off_by_one(ns, self, x, y, levels, checks) ==
    LET b == is_point_behind(ns[self], x, y, checks)
    IN  IF b.status = "panic" THEN Panicked(<<>>)
        ELSE LET c  == IF ~b.value THEN ns[self].left_child ELSE ns[self].right_child
                 st == Step(self, b.value, c)
             IN  IF levels = 0 THEN Returned(<<st>>, c)
                 ELSE IF c.kind = "NODE"
                      THEN LET l == u32_decrement(levels, checks)
                           IN  IF l.status = "panic" THEN Panicked(<<st>>)
                               ELSE Prepend(st, find_partial_off_by_one(ns, c.rc, x, y, l.value, checks))
                      ELSE Returned(<<st>>, c)

\* level.rs Node::find_partial
RECURSIVE find_partial(_, _, _, _, _, _)
find_partial(ns, self, x, y, levels, checks) ==
    LET b == is_point_behind(ns[self], x, y, checks)
    IN  IF b.status = "panic" THEN Panicked(<<>>)
        ELSE LET c  == IF ~b.value THEN ns[self].left_child ELSE ns[self].right_child
                 st == Step(self, b.value, c)
             IN  IF levels = 1 THEN Returned(<<st>>, c)
                 ELSE IF c.kind = "NODE"
                      THEN LET l == u32_decrement(levels, checks)
                           IN  IF l.status = "panic" THEN Panicked(<<st>>)
                               ELSE Prepend(st, find_partial(ns, c.rc, x, y, l.value, checks))
                      ELSE Returned(<<st>>, c)

\* Renderer::draw_bsp_search: depth 0 draws the boxes of the root node and
\* returns before any call; otherwise it draws what find_partial returns
draw_bsp_search(lv, depth, x, y, checks) ==
    IF depth = 0
    THEN [status |-> "ok", called |-> FALSE, drawn |-> ChildRcNode(lv.root_node)]
    ELSE LET r == find_partial(lv.nodes, lv.root_node, x, y, depth, checks)
         IN  IF r.status = "ok"
             THEN [status |-> "ok", called |-> TRUE, drawn |-> r.child]
             ELSE [status |-> "panic", called |-> TRUE]

-----------------------------------------------------------------------------
(* Inputs of Spec. *)

\* partition lines a node record may carry: the vertical line of the spec's
\* end-to-end scenario, and a diagonal whose origin lies one below the x axis
Partitions ==
    { [partition_x |-> 50, partition_y |-> 0,  delta_x |-> 0, delta_y |-> 1],
      [partition_x |-> 0,  partition_y |-> -1, delta_x |-> 1, delta_y |-> 1] }

\* child tags as the two bytes on disk: every node index, the first and the
\* last subsector index with bit 15 set, and the all-ones tag
TagBytes ==
    { <<k, 0>> : k \in 0..(MaxNodes - 1) }
    \cup { <<0, 128>>, <<MaxSubsectors - 1, 128>>, <<255, 255>> }

\* the SSECTORS lump holds MaxSubsectors records, or one fewer (the last
\* subsector index is then out of range)
SubsectorCounts == {MaxSubsectors - 1, MaxSubsectors}

\* positions of the player start
Points ==
    { [x |-> 10, y |-> 10], [x |-> 10, y |-> -10], [x |-> 100, y |-> I16_MAX] }

Levels == 0..MaxLevels

-----------------------------------------------------------------------------
(* Spec: decode the NODES lump, build the raw tree, assemble the Level,    *)
(* place the player and, frame by frame, query the trees.                  *)

Unused == "unused"

Init ==
    /\ overflow_checks \in BOOLEAN
    /\ pc = "decode"
    /\ node_count \in 0..MaxNodes
    /\ subsectors \in SubsectorCounts
    /\ map_nodes = <<>>
    /\ nodes = NONE
    /\ level = NONE
    /\ player = NONE
    /\ query = NONE
    /\ this = Unused /\ arg = Unused /\ behind = Unused
    /\ bytes = Unused /\ child = Unused
    /\ debug_assertions = Unused /\ file = Unused /\ directory = Unused
    /\ lump_idx = Unused /\ cur = Unused /\ wad_levels = Unused
    /\ disk = Unused /\ level_data = Unused /\ assembled = Unused /\ bbox = Unused
    /\ lump_name = Unused /\ atan = Unused /\ visible = Unused
    /\ wad = Unused /\ interface = Unused /\ panic_message = Unused
    /\ current_level = Unused

\* load_from, lines 429-442: one record of the NODES lump
DecodeNode ==
    /\ pc = "decode"
    /\ Len(map_nodes) < node_count
    /\ \E p \in Partitions, rc \in TagBytes, lc \in TagBytes :
          map_nodes' = Append(map_nodes,
                              [id |-> Len(map_nodes),
                               partition_x |-> p.partition_x,
                               partition_y |-> p.partition_y,
                               delta_x |-> p.delta_x,
                               delta_y |-> p.delta_y,
                               right_child |-> get_child(rc),
                               left_child |-> get_child(lc)])
    /\ UNCHANGED <<overflow_checks, pc, node_count, subsectors, nodes, level, player, query>>
    /\ UNCHANGED <<behindVars, childVars, loadVars, asmVars, bboxVars, nameVars, visVars, uiVars>>

\* load_from, lines 444-449: the raw tree from the last record.  A panic or
\* a stack overflow ends the process: nothing of the load is left.
LoadNodes ==
    /\ pc = "decode"
    /\ Len(map_nodes) = node_count
    /\ nodes' = load_nodes(map_nodes, subsectors)
    /\ IF nodes'.status = "ok"
       THEN pc' = "loaded" /\ UNCHANGED map_nodes
       ELSE pc' = "fatal" /\ map_nodes' = <<>>
    /\ UNCHANGED <<overflow_checks, node_count, subsectors, level, player, query>>
    /\ UNCHANGED <<behindVars, childVars, loadVars, asmVars, bboxVars, nameVars, visVars, uiVars>>

\* Level::new on the level's data.  A panic ends the process.
LevelNew ==
    /\ pc = "loaded"
    /\ level' = Level_new(map_nodes, subsectors)
    /\ IF level'.status = "ok"
       THEN pc' = "assembled" /\ UNCHANGED <<map_nodes, nodes>>
       ELSE pc' = "fatal" /\ map_nodes' = <<>> /\ nodes' = NONE
    /\ UNCHANGED <<overflow_checks, node_count, subsectors, player, query>>
    /\ UNCHANGED <<behindVars, childVars, loadVars, asmVars, bboxVars, nameVars, visVars, uiVars>>

\* Interface::run, lines 68-73: the player stands on the player start
PlacePlayer ==
    /\ pc = "assembled"
    /\ player' \in Points
    /\ pc' = "viewing"
    /\ UNCHANGED <<overflow_checks, node_count, subsectors, map_nodes, nodes, level, query>>
    /\ UNCHANGED <<behindVars, childVars, loadVars, asmVars, bboxVars, nameVars, visVars, uiVars>>

\* Interface::draw_sectors: level.nodes.find(player.x, player.y)
Find ==
    /\ pc = "viewing"
    /\ query' = [op |-> "find", levels |-> 0,
                 out |-> find(nodes.node, player.x, player.y, overflow_checks)]
    /\ pc' = "presented"
    /\ UNCHANGED <<overflow_checks, node_count, subsectors, map_nodes, nodes, level, player>>
    /\ UNCHANGED <<behindVars, childVars, loadVars, asmVars, bboxVars, nameVars, visVars, uiVars>>

\* level.root_node._find(player.x, player.y)
LevelFind ==
    /\ pc = "viewing"
    /\ query' = [op |-> "_find", levels |-> 0,
                 out |-> _find(level.nodes, level.root_node, player.x, player.y,
                               overflow_checks)]
    /\ pc' = "presented"
    /\ UNCHANGED <<overflow_checks, node_count, subsectors, map_nodes, nodes, level, player>>
    /\ UNCHANGED <<behindVars, childVars, loadVars, asmVars, bboxVars, nameVars, visVars, uiVars>>

\* level.root_node.find_partial(player.x, player.y, levels)
FindPartial ==
    /\ pc = "viewing"
    /\ \E levels \in Levels :
          query' = [op |-> "find_partial", levels |-> levels,
                    out |-> find_partial(level.nodes, level.root_node, player.x,
                                         player.y, levels, overflow_checks)]
    /\ pc' = "presented"
    /\ UNCHANGED <<overflow_checks, node_count, subsectors, map_nodes, nodes, level, player>>
    /\ UNCHANGED <<behindVars, childVars, loadVars, asmVars, bboxVars, nameVars, visVars, uiVars>>

\* Renderer::draw with bsp_render = Some(depth)
DrawBspSearch ==
    /\ pc = "viewing"
    /\ \E depth \in Levels :
          query' = [op |-> "draw_bsp_search", levels |-> depth,
                    out |-> draw_bsp_search(level, depth, player.x, player.y,
                                            overflow_checks)]
    /\ pc' = "presented"
    /\ UNCHANGED <<overflow_checks, node_count, subsectors, map_nodes, nodes, level, player>>
    /\ UNCHANGED <<behindVars, childVars, loadVars, asmVars, bboxVars, nameVars, visVars, uiVars>>

\* Interface::run: canvas.present() ends the frame, the loop starts the next
\* one; what the frame's query returned is gone
NextFrame ==
    /\ pc = "presented"
    /\ pc' = "viewing"
    /\ query' = NONE
    /\ UNCHANGED <<overflow_checks, node_count, subsectors, map_nodes, nodes, level, player>>
    /\ UNCHANGED <<behindVars, childVars, loadVars, asmVars, bboxVars, nameVars, visVars, uiVars>>

Next ==
    \/ DecodeNode
    \/ LoadNodes
    \/ LevelNew
    \/ PlacePlayer
    \/ Find
    \/ LevelFind
    \/ FindPartial
    \/ DrawBspSearch
    \/ NextFrame

Spec == Init /\ [][Next]_vars

-----------------------------------------------------------------------------
(* SpecBehind: is_point_behind applied to a node and a point drawn from    *)
(* the ends of the 16-bit range and the values around 0, or from the       *)
(* side-of-line fixture (delta_x = 0, delta_y = 10, partition_x = 100,     *)
(* x = 99 or 101).                                                         *)

Samples == {I16_MIN, I16_MAX} \cup (-Spread..Spread)

InitBehind ==
    /\ overflow_checks \in BOOLEAN
    /\ pc = "call"
    /\ \/ /\ this \in [partition_x : Samples, partition_y : Samples,
                       delta_x : Samples, delta_y : Samples]
          /\ arg \in [x : Samples, y : Samples]
       \/ /\ this \in [partition_x : {100}, partition_y : Samples,
                       delta_x : {0}, delta_y : {10}]
          /\ arg \in [x : {99, 101}, y : Samples]
    /\ behind = NONE
    /\ node_count = Unused /\ subsectors = Unused /\ map_nodes = Unused
    /\ nodes = Unused /\ level = Unused /\ player = Unused /\ query = Unused
    /\ bytes = Unused /\ child = Unused
    /\ debug_assertions = Unused /\ file = Unused /\ directory = Unused
    /\ lump_idx = Unused /\ cur = Unused /\ wad_levels = Unused
    /\ disk = Unused /\ level_data = Unused /\ assembled = Unused /\ bbox = Unused
    /\ lump_name = Unused /\ atan = Unused /\ visible = Unused
    /\ wad = Unused /\ interface = Unused /\ panic_message = Unused
    /\ current_level = Unused

IsPointBehind ==
    /\ pc = "call"
    /\ behind' = is_point_behind(this, arg.x, arg.y, overflow_checks)
    /\ pc' = "return"
    /\ UNCHANGED <<overflow_checks, this, arg, treeVars, childVars, loadVars, asmVars, bboxVars, nameVars, visVars, uiVars>>

NextBehind == IsPointBehind

SpecBehind == InitBehind /\ [][NextBehind]_vars

-----------------------------------------------------------------------------
(* SpecChild: get_child applied to every pair of bytes. *)

Byte == 0..255

InitChild ==
    /\ overflow_checks \in BOOLEAN
    /\ pc = "call"
    /\ bytes \in Byte \X Byte
    /\ child = NONE
    /\ node_count = Unused /\ subsectors = Unused /\ map_nodes = Unused
    /\ nodes = Unused /\ level = Unused /\ player = Unused /\ query = Unused
    /\ this = Unused /\ arg = Unused /\ behind = Unused
    /\ debug_assertions = Unused /\ file = Unused /\ directory = Unused
    /\ lump_idx = Unused /\ cur = Unused /\ wad_levels = Unused
    /\ disk = Unused /\ level_data = Unused /\ assembled = Unused /\ bbox = Unused
    /\ lump_name = Unused /\ atan = Unused /\ visible = Unused
    /\ wad = Unused /\ interface = Unused /\ panic_message = Unused
    /\ current_level = Unused

GetChild ==
    /\ pc = "call"
    /\ child' = get_child(bytes)
    /\ pc' = "return"
    /\ UNCHANGED <<overflow_checks, bytes, treeVars, behindVars, loadVars, asmVars, bboxVars, nameVars, visVars, uiVars>>

NextChild == GetChild

SpecChild == InitChild /\ [][NextChild]_vars

-----------------------------------------------------------------------------
(* WadFile::load_from.  The archive is its length, the two i32 fields of   *)
(* its header and the entries written at the directory offset.  A name is  *)
(* the sequence of its characters, as get_8char_string returns it.  What   *)
(* the load keeps of a record lump is the directory entry it was decoded   *)
(* from and the number of records; the NODES lump is also built into the   *)
(* raw tree.                                                               *)

\* most map markers in the directory of an archive
MaxMaps == 2

HEADER_SIZE == 12
ENTRY_SIZE == 16

Digit == {"0", "1", "2", "3", "4", "5", "6", "7", "8", "9"}

\* Regex::new(r"^E[1234]M[0-9]").is_match(name): anchored at the start only
re_is_match(name) ==
    /\ Len(name) >= 4
    /\ name[1] = "E"
    /\ name[2] \in {"1", "2", "3", "4"}
    /\ name[3] = "M"
    /\ name[4] \in Digit

THINGS   == <<"T", "H", "I", "N", "G", "S">>
LINEDEFS == <<"L", "I", "N", "E", "D", "E", "F", "S">>
SIDEDEFS == <<"S", "I", "D", "E", "D", "E", "F", "S">>
VERTEXES == <<"V", "E", "R", "T", "E", "X", "E", "S">>
SEGS     == <<"S", "E", "G", "S">>
SSECTORS == <<"S", "S", "E", "C", "T", "O", "R", "S">>
NODES    == <<"N", "O", "D", "E", "S">>
SECTORS  == <<"S", "E", "C", "T", "O", "R", "S">>
REJECT   == <<"R", "E", "J", "E", "C", "T">>
BLOCKMAP == <<"B", "L", "O", "C", "K", "M", "A", "P">>

\* the names the debug_assert!s expect, in the order load_from takes the lumps
LumpNames ==
    <<THINGS, LINEDEFS, SIDEDEFS, VERTEXES, SEGS, SSECTORS, NODES, SECTORS,
      REJECT, BLOCKMAP>>

\* bytes per record of the eight lumps that are decoded
RecordWidth == <<10, 14, 30, 4, 12, 4, 28, 26>>

NODES_SLOT == 7
SSECTORS_SLOT == 6

\* lines 279-287: three slices of the first 12 bytes, then
\* Vec::with_capacity(num_lumps as usize): a negative i32 is a capacity
\* no allocation can have
read_header(f) ==
    IF f.len < HEADER_SIZE THEN PANIC
    ELSE IF f.num_lumps < 0 THEN PANIC
    ELSE [status |-> "ok", num_lumps |-> f.num_lumps, dir_offset |-> f.dir_offset]

\* lines 288-297: the slices of one directory entry
read_entry(f, idx) ==
    LET entry_idx == f.dir_offset + idx * ENTRY_SIZE
    IN  IF entry_idx < 0 \/ entry_idx + ENTRY_SIZE > f.len THEN PANIC
        ELSE [status |-> "ok", lump |-> f.entries[idx + 1]]

\* the loop over one lump: size / width records, each sliced out of bytes at
\* file_pos + i * width.  Nothing is read of a lump of no record.
decode_records(f, lump, width) ==
    LET count == lump.size \div width
    IN  IF lump.size < 0 THEN PANIC
        ELSE IF count > 0 /\ (lump.file_pos < 0 \/ lump.file_pos + count * width > f.len)
             THEN PANIC
             ELSE [status |-> "ok", count |-> count]

\* the node record the archives of the model hold: the vertical line of the
\* end-to-end scenario, both child tags 0x8000
NodeRecord(id) ==
    [id |-> id, partition_x |-> 50, partition_y |-> 0, delta_x |-> 0, delta_y |-> 1,
     right_child |-> get_child(<<0, 128>>), left_child |-> get_child(<<0, 128>>)]

\* the lump of the directory entry idx taken as the lump of position slot of
\* the level lv: lines 317-481
decode_slot(f, dir, idx, slot, lv, dbg) ==
    IF ~InVec(idx, Len(dir)) THEN PANIC
    ELSE LET lump == dir[idx + 1]
         IN  IF dbg /\ lump.name # LumpNames[slot] THEN PANIC
             ELSE IF slot > Len(RecordWidth)
                  THEN [status |-> "ok",
                        level |-> [lv EXCEPT !.lumps = Append(@, idx)]]
                  ELSE LET d == decode_records(f, lump, RecordWidth[slot])
                       IN  IF d.status # "ok" THEN PANIC
                           ELSE IF slot # NODES_SLOT
                                THEN [status |-> "ok",
                                      level |-> [lv EXCEPT !.lumps = Append(@, idx),
                                                           !.counts = Append(@, d.count)]]
                                ELSE LET t == load_nodes([i \in 1..d.count |-> NodeRecord(i - 1)],
                                                         lv.counts[SSECTORS_SLOT])
                                     IN  IF t.status # "ok" THEN PANIC
                                         ELSE [status |-> "ok",
                                               level |-> [lv EXCEPT !.lumps = Append(@, idx),
                                                                    !.counts = Append(@, d.count),
                                                                    !.nodes = t.node]]

-----------------------------------------------------------------------------
(* Archives of SpecLoad. *)

MapMarker(e, m) == <<"E", e, "M", m>>
PLAYPAL == <<"P", "L", "A", "Y", "P", "A", "L">>

\* names on the entry that opens the first group of lumps: a map marker, a
\* marker with a two-digit mission, and an episode the pattern leaves out
FirstNames == { MapMarker("1", "1"), <<"E", "1", "M", "1", "0">>, MapMarker("5", "1") }

\* the ten names after the first marker: as expected, one of them replaced by
\* the name of a map marker, the first two exchanged, or only the first t
TenNames ==
    { LumpNames }
    \cup { [LumpNames EXCEPT ![p] = MapMarker("4", "9")] : p \in 1..Len(LumpNames) }
    \cup { [LumpNames EXCEPT ![1] = LINEDEFS, ![2] = THINGS] }
    \cup { SubSeq(LumpNames, 1, t) : t \in 0..(Len(LumpNames) - 1) }

\* a well-formed group for map number k
Group(k) == <<MapMarker("2", CHOOSE d \in Digit : d = ToString(k))>> \o LumpNames

RECURSIVE Groups(_, _)
Groups(k, n) == IF k > n THEN <<>> ELSE Group(k) \o Groups(k + 1, n)

NameLists ==
    { lead \o <<first>> \o ten \o Groups(2, g) :
        lead \in {<<>>, <<PLAYPAL>>}, first \in FirstNames, ten \in TenNames, g \in 1..MaxMaps }

WellFormedLists ==
    { lead \o <<MapMarker("1", "1")>> \o LumpNames \o Groups(2, g) :
        lead \in {<<>>, <<PLAYPAL>>}, g \in 1..MaxMaps }

\* every lump lies in the 30 bytes after the directory; a marker is empty
DATA_SIZE == 30
DataPos(n) == HEADER_SIZE + ENTRY_SIZE * n

Entry(name, n) ==
    IF re_is_match(name)
    THEN [file_pos |-> 0, size |-> 0, name |-> name]
    ELSE [file_pos |-> DataPos(n), size |-> DATA_SIZE, name |-> name]

Archive(names) ==
    [len |-> DataPos(Len(names)) + DATA_SIZE,
     num_lumps |-> Len(names),
     dir_offset |-> HEADER_SIZE,
     entries |-> [i \in 1..Len(names) |-> Entry(names[i], Len(names))]]

\* one entry of a well-formed archive pointing outside the buffer: it starts
\* at the end of the file, it starts before the file, it is one byte longer
\* than the file, or it is a lump of less than one record past the end
Displaced(a, i) ==
    { [a EXCEPT !.entries[i].file_pos = a.len],
      [a EXCEPT !.entries[i].file_pos = -1],
      [a EXCEPT !.entries[i].file_pos = DataPos(a.num_lumps), !.entries[i].size = DATA_SIZE + 1],
      [a EXCEPT !.entries[i].file_pos = a.len + 1, !.entries[i].size = 3] }

\* the file cut inside the header or inside the last directory entry, a
\* negative lump count, and an empty directory said to lie past the end
Truncated(a) ==
    { [a EXCEPT !.len = HEADER_SIZE - 1],
      [a EXCEPT !.len = DataPos(a.num_lumps) - 1],
      [a EXCEPT !.num_lumps = -1],
      [len |-> HEADER_SIZE, num_lumps |-> 0, dir_offset |-> HEADER_SIZE + 1, entries |-> <<>>] }

Archives ==
    { Archive(names) : names \in NameLists }
    \cup UNION { Displaced(Archive(names), i) \cup Truncated(Archive(names)) :
                   names \in WellFormedLists, i \in 1..(Len(LumpNames) + 2) }

-----------------------------------------------------------------------------
(* SpecLoad: load_from on an archive. *)

InitLoad ==
    /\ overflow_checks \in BOOLEAN
    /\ debug_assertions \in BOOLEAN
    /\ pc = "header"
    /\ file \in Archives
    /\ directory = <<>>
    /\ lump_idx = 0
    /\ cur = NONE
    /\ wad_levels = <<>>
    /\ node_count = Unused /\ subsectors = Unused /\ map_nodes = Unused
    /\ nodes = Unused /\ level = Unused /\ player = Unused /\ query = Unused
    /\ this = Unused /\ arg = Unused /\ behind = Unused
    /\ bytes = Unused /\ child = Unused
    /\ disk = Unused /\ level_data = Unused /\ assembled = Unused /\ bbox = Unused
    /\ lump_name = Unused /\ atan = Unused /\ visible = Unused
    /\ wad = Unused /\ interface = Unused /\ panic_message = Unused
    /\ current_level = Unused

\* a panic unwinds out of load_from: nothing it built is left
Abort ==
    /\ pc' = "fatal"
    /\ directory' = <<>>
    /\ lump_idx' = 0
    /\ cur' = NONE
    /\ wad_levels' = <<>>

LoadFrame == <<overflow_checks, debug_assertions, file, treeVars, behindVars,
               childVars, asmVars, bboxVars, nameVars, visVars, uiVars>>

\* lines 277-287
ReadHeader ==
    /\ pc = "header"
    /\ IF read_header(file).status # "ok" THEN Abort
       ELSE /\ pc' = IF file.num_lumps = 0 THEN "scan" ELSE "directory"
            /\ UNCHANGED <<directory, lump_idx, cur, wad_levels>>
    /\ UNCHANGED LoadFrame

\* lines 288-297: one turn of the directory loop
ReadEntry ==
    /\ pc = "directory"
    /\ lump_idx < file.num_lumps
    /\ LET e == read_entry(file, lump_idx)
       IN  IF e.status # "ok" THEN Abort
           ELSE /\ directory' = Append(directory, e.lump)
                /\ IF lump_idx + 1 = file.num_lumps
                   THEN pc' = "scan" /\ lump_idx' = 0
                   ELSE pc' = "directory" /\ lump_idx' = lump_idx + 1
                /\ UNCHANGED <<cur, wad_levels>>
    /\ UNCHANGED LoadFrame

\* lines 310-317: one turn of the scan, on an entry that is not inside a level
ScanEntry ==
    /\ pc = "scan"
    /\ lump_idx < Len(directory)
    /\ IF ~re_is_match(directory[lump_idx + 1].name)
       THEN /\ lump_idx' = lump_idx + 1
            /\ UNCHANGED <<pc, cur>>
       ELSE /\ pc' = "level"
            /\ cur' = [marker |-> lump_idx, lumps |-> <<>>, counts |-> <<>>, nodes |-> NONE]
            /\ UNCHANGED lump_idx
    /\ UNCHANGED <<directory, wad_levels>>
    /\ UNCHANGED LoadFrame

\* lines 317-492: lump_idx += 1 and the next lump of the level; after the
\* tenth the level is pushed and the scan goes on at the entry just taken
DecodeLump ==
    /\ pc = "level"
    /\ LET slot == Len(cur.lumps) + 1
           r == decode_slot(file, directory, lump_idx + 1, slot, cur, debug_assertions)
       IN  IF r.status # "ok" THEN Abort
           ELSE /\ lump_idx' = lump_idx + 1
                /\ IF slot = Len(LumpNames)
                   THEN pc' = "scan" /\ cur' = NONE /\ wad_levels' = Append(wad_levels, r.level)
                   ELSE pc' = "level" /\ cur' = r.level /\ UNCHANGED wad_levels
                /\ UNCHANGED directory
    /\ UNCHANGED LoadFrame

\* lines 495-500: the WadFile is returned
ReturnWad ==
    /\ pc = "scan"
    /\ lump_idx >= Len(directory)
    /\ pc' = "returned"
    /\ UNCHANGED <<directory, lump_idx, cur, wad_levels>>
    /\ UNCHANGED LoadFrame

NextLoad ==
    \/ ReadHeader
    \/ ReadEntry
    \/ ScanEntry
    \/ DecodeLump
    \/ ReturnWad

SpecLoad == InitLoad /\ [][NextLoad]_vars

-----------------------------------------------------------------------------
(* The index fields of the record lumps and the passes of Level::new that  *)
(* resolve them.  load_from decodes every index as get_i16(..) as usize,   *)
(* which sign-extends: 0x8000..0xFFFF become the 32768 largest values of a *)
(* usize.  A usize is kept as the signed number with the same bits (its    *)
(* residue modulo the word size in the signed range), so those values are  *)
(* -32768..-1, and order and overflow are those of the unsigned values.    *)
(* An Rc is kept as the index of the element it points to.                 *)

\* i16::from_le_bytes(..) as usize, on the unsigned 16-bit value on disk
get_index(val) == AsI16(val)

\* a >= b on usize
UsizeGe(a, b) == IF (a < 0) = (b < 0) THEN a >= b ELSE a < 0

\* a + b on usize: the carry out of the word is an overflow
usize_add(a, b, checks) ==
    LET carry == IF a < 0 /\ b < 0 THEN TRUE
                 ELSE IF a < 0 \/ b < 0 THEN a + b >= 0
                 ELSE FALSE
    IN  IF carry /\ checks THEN PANIC ELSE Ok(a + b)

SENTINEL == 65535

None == [some |-> FALSE]
Some(k) == [some |-> TRUE, rc |-> k]

\* load_from, lines 341-423: the index fields of the four lumps that carry
\* references, and the record counts of the two that are referred to
decode_indexes(d) ==
    [sectors    |-> d.sectors,
     vertexes   |-> d.vertexes,
     sidedefs   |-> [i \in 1..Len(d.sidedefs) |-> [sector |-> get_index(d.sidedefs[i].sector)]],
     linedefs   |-> [i \in 1..Len(d.linedefs) |->
                        [start_vert    |-> get_index(d.linedefs[i].start_vert),
                         end_vert      |-> get_index(d.linedefs[i].end_vert),
                         right_sidedef |-> get_index(d.linedefs[i].right_sidedef),
                         left_sidedef  |-> get_index(d.linedefs[i].left_sidedef)]],
     segs       |-> [i \in 1..Len(d.segs) |->
                        [start_vert |-> get_index(d.segs[i].start_vert),
                         end_vert   |-> get_index(d.segs[i].end_vert),
                         linedef    |-> get_index(d.segs[i].linedef)]],
     subsectors |-> [i \in 1..Len(d.subsectors) |->
                        [segment_count |-> get_index(d.subsectors[i].segment_count),
                         first_segment |-> get_index(d.subsectors[i].first_segment)]]]

\* lines 193-206: Rc::clone(&sectors[data.sector])
sidedefs_pass(ld) ==
    IF \E i \in 1..Len(ld.sidedefs) : ~InVec(ld.sidedefs[i].sector, ld.sectors)
    THEN PANIC
    ELSE [status |-> "ok",
          vec |-> [i \in 1..Len(ld.sidedefs) |-> [sector |-> ld.sidedefs[i].sector]]]

\* lines 218-227 with every present sidedef resolved to the first one
sidedef_ref_first(idx, len) ==
    IF UsizeGe(idx, SENTINEL) THEN Ok(None)
    ELSE IF InVec(idx, len) THEN Ok(Some(0))
    ELSE PANIC

\* lines 218-227: if data.x_sidedef >= 65535 { None } else { Some(sidedefs[..]) }
sidedef_ref(idx, len) ==
    IF UsizeGe(idx, SENTINEL) THEN Ok(None)
    ELSE IF InVec(idx, len) THEN Ok(Some(idx))
    ELSE PANIC

\* lines 208-230
linedefs_pass(ld, sidedefs) ==
    LET right(i) == sidedef_ref(ld.linedefs[i].right_sidedef, Len(sidedefs))
        left(i)  == sidedef_ref(ld.linedefs[i].left_sidedef, Len(sidedefs))
    IN  IF \E i \in 1..Len(ld.linedefs) : right(i) = PANIC \/ left(i) = PANIC
        THEN PANIC
        ELSE [status |-> "ok",
              vec |-> [i \in 1..Len(ld.linedefs) |->
                          [start_vert    |-> ld.linedefs[i].start_vert,
                           end_vert      |-> ld.linedefs[i].end_vert,
                           right_sidedef |-> right(i).value,
                           left_sidedef  |-> left(i).value]]]

\* lines 232-245: Rc::clone(&linedefs[data.linedef])
segments_pass(ld, linedefs) ==
    IF \E i \in 1..Len(ld.segs) : ~InVec(ld.segs[i].linedef, Len(linedefs))
    THEN PANIC
    ELSE [status |-> "ok",
          vec |-> [i \in 1..Len(ld.segs) |->
                      [start_vert |-> ld.segs[i].start_vert,
                       end_vert   |-> ld.segs[i].end_vert,
                       linedef    |-> ld.segs[i].linedef]]]

\* lines 251-258, one subsector: Vec::with_capacity(segment_count) (a count
\* of the upper half of usize is a capacity no allocation can have), then the
\* range first_segment..first_segment + segment_count, empty when its end is
\* not above its start
subsector_new(ss, segments, checks) ==
    IF ss.segment_count < 0 THEN PANIC
    ELSE LET end == usize_add(ss.first_segment, ss.segment_count, checks)
         IN  IF end = PANIC THEN PANIC
             ELSE IF UsizeGe(ss.first_segment, end.value)
                  THEN Ok([segment_count |-> ss.segment_count, segments |-> <<>>])
                  ELSE IF InVec(ss.first_segment, Len(segments))
                          /\ InVec(end.value - 1, Len(segments))
                       THEN Ok([segment_count |-> ss.segment_count,
                                segments |-> [k \in 1..(end.value - ss.first_segment) |->
                                                 ss.first_segment + k - 1]])
                       ELSE PANIC

\* lines 247-260
subsectors_pass(ld, segments, checks) ==
    LET new(i) == subsector_new(ld.subsectors[i], segments, checks)
    IN  IF \E i \in 1..Len(ld.subsectors) : new(i) = PANIC
        THEN PANIC
        ELSE [status |-> "ok", vec |-> [i \in 1..Len(ld.subsectors) |-> new(i).value]]

\* Level::new, lines 187-260 and 289-299: the passes in their order.  The
\* vertexes are cloned; no pass looks at start_vert or end_vert.
Level_new_graph(ld, checks) ==
    LET sd == sidedefs_pass(ld)
    IN  IF sd = PANIC THEN PANIC
        ELSE LET li == linedefs_pass(ld, sd.vec)
             IN  IF li = PANIC THEN PANIC
                 ELSE LET sg == segments_pass(ld, li.vec)
                      IN  IF sg = PANIC THEN PANIC
                          ELSE LET ss == subsectors_pass(ld, sg.vec, checks)
                               IN  IF ss = PANIC THEN PANIC
                                   ELSE [status |-> "ok",
                                         vertexes |-> ld.vertexes,
                                         sectors |-> ld.sectors,
                                         sidedefs |-> sd.vec,
                                         linedefs |-> li.vec,
                                         segments |-> sg.vec,
                                         subsectors |-> ss.vec]

-----------------------------------------------------------------------------
(* Lumps of SpecAssembly: a well-formed level, one record of it carrying   *)
(* other index values.                                                     *)

\* records in each of the sidedef, linedef, segment and subsector lumps, and
\* sectors, of the well-formed level
MaxRecords == 2

VertexCount == MaxRecords + 2

\* sidedef i faces sector i; linedef i has sidedef i on its right and none on
\* its left; segment i runs along linedef i; subsector i holds the segments
\* from segment i on
BaseLevel ==
    [sectors    |-> MaxRecords,
     vertexes   |-> VertexCount,
     sidedefs   |-> [i \in 1..MaxRecords |-> [sector |-> i - 1]],
     linedefs   |-> [i \in 1..MaxRecords |->
                        [start_vert |-> i - 1, end_vert |-> i,
                         right_sidedef |-> i - 1, left_sidedef |-> SENTINEL]],
     segs       |-> [i \in 1..MaxRecords |->
                        [start_vert |-> i - 1, end_vert |-> i, linedef |-> i - 1]],
     subsectors |-> [i \in 1..MaxRecords |->
                        [segment_count |-> MaxRecords - i + 1, first_segment |-> i - 1]]]

\* values of a 16-bit index field that refers to an array of n elements: the
\* first, the last, one past the last, and the two ends of each half of the
\* unsigned range
IndexValues(n) == {0, n - 1, n, I16_MAX, I16_MAX + 1, SENTINEL - 1, SENTINEL}

CountValues(n) == {0, 1, n, n + 1, I16_MAX + 1, SENTINEL}

DiskLevels ==
    { [BaseLevel EXCEPT !.sidedefs[p].sector = s] :
        p \in 1..MaxRecords, s \in IndexValues(MaxRecords) }
    \cup { [BaseLevel EXCEPT !.linedefs[p].right_sidedef = r, !.linedefs[p].left_sidedef = l,
                             !.linedefs[p].start_vert = v] :
             p \in 1..MaxRecords, r \in IndexValues(MaxRecords),
             l \in IndexValues(MaxRecords), v \in IndexValues(VertexCount) }
    \cup { [BaseLevel EXCEPT !.segs[p].linedef = l, !.segs[p].end_vert = v] :
             p \in 1..MaxRecords, l \in IndexValues(MaxRecords),
             v \in IndexValues(VertexCount) }
    \cup { [BaseLevel EXCEPT !.subsectors[p].segment_count = c,
                             !.subsectors[p].first_segment = f] :
             p \in 1..MaxRecords, c \in CountValues(MaxRecords),
             f \in IndexValues(MaxRecords) }

\* a level of more sidedefs than an i16 can count, all facing sector 0; its
\* first linedef refers to the last of them
ManySidedefs ==
    [BaseLevel EXCEPT !.sidedefs = [i \in 1..(I16_MAX + 2) |-> [sector |-> 0]],
                      !.linedefs[1].right_sidedef = I16_MAX + 1]

-----------------------------------------------------------------------------
(* SpecAssembly: the index fields are decoded, then Level::new runs. *)

InitAssembly ==
    /\ overflow_checks \in BOOLEAN
    /\ pc = "disk"
    /\ disk \in DiskLevels \cup {ManySidedefs}
    /\ level_data = NONE
    /\ assembled = NONE
    /\ node_count = Unused /\ subsectors = Unused /\ map_nodes = Unused
    /\ nodes = Unused /\ level = Unused /\ player = Unused /\ query = Unused
    /\ this = Unused /\ arg = Unused /\ behind = Unused
    /\ bytes = Unused /\ child = Unused
    /\ debug_assertions = Unused /\ file = Unused /\ directory = Unused
    /\ lump_idx = Unused /\ cur = Unused /\ wad_levels = Unused
    /\ bbox = Unused
    /\ lump_name = Unused /\ atan = Unused /\ visible = Unused
    /\ wad = Unused /\ interface = Unused /\ panic_message = Unused
    /\ current_level = Unused

\* load_from, lines 341-423
DecodeIndexes ==
    /\ pc = "disk"
    /\ level_data' = decode_indexes(disk)
    /\ pc' = "decoded"
    /\ UNCHANGED <<overflow_checks, disk, assembled>>
    /\ UNCHANGED <<treeVars, behindVars, childVars, loadVars, bboxVars, nameVars, visVars, uiVars>>

\* Level::new(&wad.levels[..]).  A panic ends the process.
AssembleLevel ==
    /\ pc = "decoded"
    /\ assembled' = Level_new_graph(level_data, overflow_checks)
    /\ pc' = IF assembled' = PANIC THEN "fatal" ELSE "assembled"
    /\ UNCHANGED <<overflow_checks, disk, level_data>>
    /\ UNCHANGED <<treeVars, behindVars, childVars, loadVars, bboxVars, nameVars, visVars, uiVars>>

NextAssembly ==
    \/ DecodeIndexes
    \/ AssembleLevel

SpecAssembly == InitAssembly /\ [][NextAssembly]_vars

-----------------------------------------------------------------------------
(* WadFile::get_bbox. *)

\* WadFile::get_i16: i16::from_le_bytes([bytes[0], bytes[1]])
get_i16(b) == AsI16(U16FromLeBytes(b))

\* top, bottom, left, right are read in that order; width and height are
\* i16 subtractions
get_bbox(b, checks) ==
    LET top    == get_i16(SubSeq(b, 1, 2))
        bottom == get_i16(SubSeq(b, 3, 4))
        left   == get_i16(SubSeq(b, 5, 6))
        right  == get_i16(SubSeq(b, 7, 8))
    IN  IF checks /\ ~(InI16(right - left) /\ InI16(top - bottom))
        THEN PANIC
        ELSE Ok([left |-> left, top |-> top,
                 width |-> AsI16(right - left), height |-> AsI16(top - bottom)])

\* the two bytes of a field: 0, 1, 256, -1 and the two ends of the i16 range
FieldBytes == { <<0, 0>>, <<1, 0>>, <<0, 1>>, <<255, 255>>, <<255, 127>>, <<0, 128>> }

InitBBox ==
    /\ overflow_checks \in BOOLEAN
    /\ pc = "call"
    /\ bytes \in { t \o b \o l \o r : t \in FieldBytes, b \in FieldBytes,
                                      l \in FieldBytes, r \in FieldBytes }
    /\ bbox = NONE
    /\ node_count = Unused /\ subsectors = Unused /\ map_nodes = Unused
    /\ nodes = Unused /\ level = Unused /\ player = Unused /\ query = Unused
    /\ this = Unused /\ arg = Unused /\ behind = Unused
    /\ child = Unused
    /\ debug_assertions = Unused /\ file = Unused /\ directory = Unused
    /\ lump_idx = Unused /\ cur = Unused /\ wad_levels = Unused
    /\ disk = Unused /\ level_data = Unused /\ assembled = Unused
    /\ lump_name = Unused /\ atan = Unused /\ visible = Unused
    /\ wad = Unused /\ interface = Unused /\ panic_message = Unused
    /\ current_level = Unused

GetBBox ==
    /\ pc = "call"
    /\ bbox' = get_bbox(bytes, overflow_checks)
    /\ pc' = "return"
    /\ UNCHANGED <<overflow_checks, bytes, child, treeVars, behindVars, loadVars, asmVars,
                 nameVars, visVars, uiVars>>

NextBBox == GetBBox

SpecBBox == InitBBox /\ [][NextBBox]_vars

-----------------------------------------------------------------------------
(***************************************************************************)
(* The fixed-width names: WadFile::get_8char_string.  A String is kept as  *)
(* what it is, its UTF-8 bytes; a byte is a number in 0..255.             *)
(***************************************************************************)

\* the text unwrap_or substitutes: "????"
QUESTION_MARKS == <<63, 63, 63, 63>>

\* a continuation byte of UTF-8 at position j of b, within lo..hi
Continuation(b, j, lo, hi) == j <= Len(b) /\ b[j] >= lo /\ b[j] <= hi

\* std::str::from_utf8(..).is_ok(): b is well-formed UTF-8 from position i on
RECURSIVE from_utf8_is_ok(_, _)
from_utf8_is_ok(b, i) ==
    IF i > Len(b) THEN TRUE
    ELSE LET c == b[i] IN
         IF c < 128 THEN from_utf8_is_ok(b, i + 1)
         ELSE IF c >= 194 /\ c <= 223 THEN
             Continuation(b, i + 1, 128, 191) /\ from_utf8_is_ok(b, i + 2)
         ELSE IF c >= 224 /\ c <= 239 THEN
             /\ Continuation(b, i + 1, IF c = 224 THEN 160 ELSE 128,
                                       IF c = 237 THEN 159 ELSE 191)
             /\ Continuation(b, i + 2, 128, 191)
             /\ from_utf8_is_ok(b, i + 3)
         ELSE IF c >= 240 /\ c <= 244 THEN
             /\ Continuation(b, i + 1, IF c = 240 THEN 144 ELSE 128,
                                       IF c = 244 THEN 143 ELSE 191)
             /\ Continuation(b, i + 2, 128, 191)
             /\ Continuation(b, i + 3, 128, 191)
             /\ from_utf8_is_ok(b, i + 4)
         ELSE FALSE

\* the loop of lines 251-257: idx runs over 0..8, name_nul counts the bytes
\* passed; b[idx + 1] is bytes[idx]
RECURSIVE scan_name(_, _, _)
scan_name(b, idx, name_nul) ==
    IF idx = 8 THEN name_nul
    ELSE IF b[idx + 1] = 0 THEN idx
    ELSE scan_name(b, idx + 1, name_nul + 1)

\* get_8char_string without the search for the zero byte
get_8char_string_whole_field(b) ==
    IF from_utf8_is_ok(b, 1) THEN b ELSE QUESTION_MARKS

get_8char_string(b) ==
    LET name_nul == scan_name(b, 0, 0)
        text == SubSeq(b, 1, name_nul)
    IN IF from_utf8_is_ok(text, 1) THEN text ELSE QUESTION_MARKS

(* SpecName: get_8char_string over the 8-byte fields made of a zero, an    *)
(* ASCII letter, the lead byte of a two-byte sequence and a continuation   *)
(* byte.                                                                   *)
NameBytes == {0, 65, 195, 169}

InitName ==
    /\ overflow_checks = Unused
    /\ pc = "call"
    /\ bytes \in [1..8 -> NameBytes]
    /\ lump_name = NONE
    /\ node_count = Unused /\ subsectors = Unused /\ map_nodes = Unused
    /\ nodes = Unused /\ level = Unused /\ player = Unused /\ query = Unused
    /\ this = Unused /\ arg = Unused /\ behind = Unused
    /\ child = Unused
    /\ debug_assertions = Unused /\ file = Unused /\ directory = Unused
    /\ lump_idx = Unused /\ cur = Unused /\ wad_levels = Unused
    /\ disk = Unused /\ level_data = Unused /\ assembled = Unused /\ bbox = Unused
    /\ atan = Unused /\ visible = Unused
    /\ wad = Unused /\ interface = Unused /\ panic_message = Unused
    /\ current_level = Unused

Get8CharString ==
    /\ pc = "call"
    /\ lump_name' = get_8char_string(bytes)
    /\ pc' = "return"
    /\ UNCHANGED <<overflow_checks, bytes, child, treeVars, behindVars, loadVars,
                   asmVars, bboxVars, visVars, uiVars>>

NextName == Get8CharString

SpecName == InitName /\ [][NextName]_vars

-----------------------------------------------------------------------------
(***************************************************************************)
(* The viewer: Interface::new, Interface::run and Interface::handle_input  *)
(* of src/src/interface.rs.  A level is the part of LevelData that run     *)
(* reads: things and vertexes.  The reference `level` is kept as the index *)
(* of the element of wad.levels it points to.  The pose is the f32 triple  *)
(* x, y, angle as it was when it was last set from a Thing, together with  *)
(* the list of the += and -= that handle_input has applied to it since:    *)
(* the f32 arithmetic is not evaluated, two poses are the same when the    *)
(* same steps were applied to the same start.  angle is held in degrees,   *)
(* as it is in the file.                                                   *)
(***************************************************************************)

MaxMoves == 2

INDEX_OUT_OF_BOUNDS == "index out of bounds"
SUBTRACT_OVERFLOW == "attempt to subtract with overflow"
\* the message of Option::unwrap on a None, without its back quotes
UNWRAP_NONE == "called Option::unwrap() on a None value"

\* panic!: the process ends with this message
Panic(message) == [status |-> "panic", message |-> message]

\* Interface::new, lines 50-61
Interface_new ==
    [x_offset |-> 0, y_offset |-> 0, level_width |-> 320, level_height |-> 240,
     pressed_keys |-> {}, state |-> "Viewing"]

\* the least and the greatest of a set of i16, as the loop of find_bounds
\* leaves them in min_x and max_x
min_i16(values) ==
    IF values = {} THEN I16_MAX ELSE CHOOSE v \in values : \A w \in values : v <= w

max_i16(values) ==
    IF values = {} THEN I16_MIN ELSE CHOOSE v \in values : \A w \in values : v >= w

\* find_bounds, lines 159-186: the Interface it leaves, or the panic of an
\* i16 subtraction that overflows
find_bounds(self, lv, checks) ==
    LET xs == {lv.vertexes[i].x : i \in DOMAIN lv.vertexes}
        ys == {lv.vertexes[i].y : i \in DOMAIN lv.vertexes}
        width == max_i16(xs) - min_i16(xs)
        height == max_i16(ys) - min_i16(ys)
    IN IF checks /\ ~(InI16(width) /\ InI16(height)) THEN Panic(SUBTRACT_OVERFLOW)
       ELSE [status |-> "ok",
             self |-> [self EXCEPT !.x_offset = min_i16(xs),
                                   !.y_offset = min_i16(ys),
                                   !.level_width = AsI16(width),
                                   !.level_height = AsI16(height)]]

\* level.things.iter().find(|t| t.thing_type == 1)
find_player_thing(things) ==
    LET starts == {i \in DOMAIN things : things[i].thing_type = 1}
    IN IF starts = {} THEN NONE
       ELSE [status |-> "some",
             thing |-> things[CHOOSE i \in starts : \A j \in starts : i <= j]]

\* the Player made of a Thing, lines 69-73, 112-114 and 128-130
player_at(thing) ==
    [x |-> thing.x, y |-> thing.y, angle |-> thing.angle_facing, moves |-> <<>>]

\* Period with the index of the next level in place of the clamped one
next_level_unclamped(level_count, current) == current + 1

\* line 107: cmp::min(level_count - 1, current_level + 1)
next_level(level_count, current) ==
    IF level_count - 1 <= current + 1 THEN level_count - 1 ELSE current + 1

\* lines 122-126
previous_level(current) == IF current > 0 THEN current - 1 ELSE 0

\* get_scancodes, lines 350-352: new - old
get_scancodes(old, new) == new \ old

\* one of the four updates of lines 373-390, named by its key
move(p, key) == [p EXCEPT !.moves = Append(@, key)]

\* the movement of lines 373-390
walk_and_turn(p, keys) ==
    LET walked == IF "Up" \in keys THEN move(p, "Up")
                  ELSE IF "Down" \in keys THEN move(p, "Down")
                  ELSE p
    IN IF "Left" \in keys THEN move(walked, "Left")
       ELSE IF "Right" \in keys THEN move(walked, "Right")
       ELSE walked

\* handle_input taking P as pressed on every tick it is held
handle_input_level_triggered(self, p, scancodes) ==
    LET held == [self EXCEPT !.pressed_keys = scancodes]
    IN CASE self.state \in {"Playing", "Viewing"} ->
                [self |-> IF "P" \in scancodes
                          THEN [held EXCEPT !.state = "Paused"] ELSE held,
                 player |-> walk_and_turn(p, scancodes)]
         [] self.state = "Paused" ->
                [self |-> IF "P" \in scancodes
                          THEN [held EXCEPT !.state = "Playing"] ELSE held,
                 player |-> p]
         [] OTHER -> [self |-> held, player |-> p]

\* handle_input moving the player in every state
handle_input_moving_in_pause(self, p, scancodes) ==
    LET newly_pressed == get_scancodes(self.pressed_keys, scancodes)
        held == [self EXCEPT !.pressed_keys = scancodes]
    IN CASE self.state \in {"Playing", "Viewing"} ->
                [self |-> IF "P" \in newly_pressed
                          THEN [held EXCEPT !.state = "Paused"] ELSE held,
                 player |-> walk_and_turn(p, scancodes)]
         [] self.state = "Paused" ->
                [self |-> IF "P" \in newly_pressed
                          THEN [held EXCEPT !.state = "Playing"] ELSE held,
                 player |-> walk_and_turn(p, scancodes)]
         [] OTHER -> [self |-> held, player |-> p]

\* handle_input, lines 354-404: scancodes is what keyboard_state() gave
handle_input(self, p, scancodes) ==
    LET newly_pressed == get_scancodes(self.pressed_keys, scancodes)
        held == [self EXCEPT !.pressed_keys = scancodes]
    IN CASE self.state = "TitleScreen" ->
                [self |-> IF "Space" \in newly_pressed
                          THEN [held EXCEPT !.state = "Playing"] ELSE held,
                 player |-> p]
         [] self.state \in {"Playing", "Viewing"} ->
                [self |-> IF "P" \in newly_pressed
                          THEN [held EXCEPT !.state = "Paused"] ELSE held,
                 player |-> walk_and_turn(p, held.pressed_keys)]
         [] self.state = "Paused" ->
                [self |-> IF "P" \in newly_pressed
                          THEN [held EXCEPT !.state = "Playing"] ELSE held,
                 player |-> p]
         [] self.state = "GameOver" ->
                [self |-> IF "Space" \in newly_pressed
                          THEN [held EXCEPT !.state = "Playing"] ELSE held,
                 player |-> p]

(* SpecInterface: run on a WAD of 0..MaxMaps levels.  A level has a player *)
(* start or none, and vertexes whose extent fits an i16 or does not.  The  *)
(* keys held are among those handle_input looks at in the states run can   *)
(* be in.                                                                  *)
Thing(thing_type, x, y, angle_facing) ==
    [thing_type |-> thing_type, x |-> x, y |-> y, angle_facing |-> angle_facing]

ThingLists(k) ==
    { <<Thing(3004, 0, 0, 0)>>,
      <<Thing(3004, 0, 0, 0), Thing(1, 100 * k, 50, 90), Thing(1, -100 * k, 60, 270)>> }

VertexLists ==
    { <<[x |-> 0, y |-> 0], [x |-> 64, y |-> 64]>>,
      <<[x |-> I16_MIN, y |-> 0], [x |-> I16_MAX, y |-> 0]>> }

LevelsOf(k) == {[things |-> t, vertexes |-> v] : t \in ThingLists(k), v \in VertexLists}

Wads ==
    UNION {{w \in [1..n -> UNION {LevelsOf(k) : k \in 1..n}] :
               \A k \in 1..n : w[k] \in LevelsOf(k)} : n \in 0..MaxMaps}

\* the sets of keys found held on a tick
KeySets ==
    { {}, {"P"}, {"Up"}, {"Down"}, {"Left"}, {"Right"}, {"P", "Up"},
      {"Up", "Right"}, {"Up", "Down", "Left", "Right"} }

InitInterface ==
    /\ overflow_checks \in BOOLEAN
    /\ pc = "main"
    /\ wad \in {[levels |-> w] : w \in Wads}
    /\ interface = Interface_new
    /\ panic_message = NONE
    /\ current_level = 0
    /\ level = NONE
    /\ player = NONE
    /\ node_count = Unused /\ subsectors = Unused /\ map_nodes = Unused
    /\ nodes = Unused /\ query = Unused
    /\ this = Unused /\ arg = Unused /\ behind = Unused
    /\ bytes = Unused /\ child = Unused
    /\ debug_assertions = Unused /\ file = Unused /\ directory = Unused
    /\ lump_idx = Unused /\ cur = Unused /\ wad_levels = Unused
    /\ disk = Unused /\ level_data = Unused /\ assembled = Unused /\ bbox = Unused
    /\ lump_name = Unused /\ atan = Unused /\ visible = Unused

InterfaceFrame == <<overflow_checks, wad, node_count, subsectors, map_nodes, nodes, query,
                    behindVars, childVars, loadVars, asmVars, bboxVars, nameVars, visVars>>

\* run up to the loop, lines 64-73
Run ==
    /\ pc = "main"
    /\ current_level' = 0
    /\ IF Len(wad.levels) = 0
       THEN /\ pc' = "fatal"
            /\ panic_message' = Panic(INDEX_OUT_OF_BOUNDS)
            /\ UNCHANGED <<level, interface, player>>
       ELSE LET bounds == find_bounds(interface, wad.levels[1], overflow_checks)
                player_thing == find_player_thing(wad.levels[1].things)
            IN /\ level' = 0
               /\ IF bounds.status = "panic"
                  THEN /\ pc' = "fatal"
                       /\ panic_message' = bounds
                       /\ UNCHANGED <<interface, player>>
                  ELSE /\ interface' = bounds.self
                       /\ IF player_thing = NONE
                          THEN /\ pc' = "fatal"
                               /\ panic_message' = Panic(UNWRAP_NONE)
                               /\ UNCHANGED player
                          ELSE /\ pc' = "events"
                               /\ player' = player_at(player_thing.thing)
                               /\ UNCHANGED panic_message
    /\ UNCHANGED InterfaceFrame

\* the body shared by the Period and Comma arms, lines 108-113 and 127-132
SwitchTo(idx) ==
    /\ current_level' = idx
    /\ IF idx >= Len(wad.levels)
       THEN /\ pc' = "fatal"
            /\ panic_message' = Panic(INDEX_OUT_OF_BOUNDS)
            /\ UNCHANGED <<level, interface, player>>
       ELSE LET player_thing == find_player_thing(wad.levels[idx + 1].things)
                bounds == find_bounds(interface, wad.levels[idx + 1], overflow_checks)
            IN /\ level' = idx
               /\ IF player_thing = NONE
                  THEN /\ pc' = "fatal"
                       /\ panic_message' = Panic(UNWRAP_NONE)
                       /\ UNCHANGED <<interface, player>>
                  ELSE /\ player' = player_at(player_thing.thing)
                       /\ IF bounds.status = "panic"
                          THEN /\ pc' = "fatal"
                               /\ panic_message' = bounds
                               /\ UNCHANGED interface
                          ELSE /\ pc' = "events"
                               /\ interface' = bounds.self
                               /\ UNCHANGED panic_message
    /\ UNCHANGED InterfaceFrame

\* Event::KeyDown of Period, lines 102-113
KeyDownPeriod ==
    /\ pc = "events"
    /\ SwitchTo(next_level(Len(wad.levels), current_level))

\* Event::KeyDown of Comma, lines 115-132
KeyDownComma ==
    /\ pc = "events"
    /\ SwitchTo(previous_level(current_level))

\* Event::Quit and KeyDown of Escape or Q, lines 93-101
Quit ==
    /\ pc = "events"
    /\ pc' = "exited"
    /\ UNCHANGED <<current_level, level, interface, player, panic_message, InterfaceFrame>>

\* the rest of the tick after the events, lines 136-155.  The drawing
\* changes nothing of the Interface or of the player.
HandleInput ==
    /\ pc = "events"
    /\ \E scancodes \in KeySets :
           LET after == handle_input(interface, player, scancodes)
           IN /\ Len(after.player.moves) <= MaxMoves
              /\ interface' = after.self
              /\ player' = after.player
    /\ UNCHANGED <<pc, current_level, level, panic_message, InterfaceFrame>>

NextInterface == Run \/ KeyDownPeriod \/ KeyDownComma \/ Quit \/ HandleInput

SpecInterface == InitInterface /\ [][NextInterface]_vars

-----------------------------------------------------------------------------
(***************************************************************************)
(* The visibility test: Renderer::angle_to_vertex and                      *)
(* Renderer::is_seg_visible of src/src/renderer.rs.  An angle is a whole   *)
(* number of steps of a grid that divides pi/4 into AngleGrid steps, and   *)
(* the arithmetic on it is exact: the rounding of f32 is left out.  The    *)
(* two vertices come in as what atan2 gave for them.                       *)
(***************************************************************************)

AngleGrid == 3

FRAC_PI_4 == AngleGrid
FRAC_PI_2 == 2 * AngleGrid
PI == 4 * AngleGrid

\* angle_to_vertex, lines 107-117, from `let angle = dy.atan2(dx)` on
angle_to_vertex(angle) == IF angle < 0 THEN angle + 2 * PI ELSE angle

\* the if / else if that follows each rotation, e.g. lines 181-185
rotate_once(rotated) ==
    IF rotated < 0 THEN rotated + PI * 2
    ELSE IF rotated > PI * 2 THEN rotated - PI * 2
    ELSE rotated

\* is_seg_visible, lines 165-216: p is the player, atan1 and atan2 what
\* atan2 gave for v1 and v2
is_seg_visible(p, atan1, atan2) ==
    LET a1 == angle_to_vertex(atan1)
        a2 == angle_to_vertex(atan2)
        angle_diff == a1 - a2
        rotated_a1 == rotate_once(a1 - p.angle + FRAC_PI_4)
        rotated_a2 == rotate_once(FRAC_PI_4 - rotate_once(a2 - p.angle))
    IN IF a2 > a1 THEN NONE
       ELSE IF angle_diff >= PI THEN NONE
       ELSE IF rotated_a1 > FRAC_PI_2 /\ rotated_a1 - FRAC_PI_2 >= angle_diff THEN NONE
       ELSE [status |-> "some",
             a1 |-> IF rotated_a1 > FRAC_PI_2 THEN p.angle + FRAC_PI_4 ELSE a1,
             a2 |-> IF rotated_a2 > FRAC_PI_2 THEN p.angle - FRAC_PI_4 ELSE a2]

(* SpecVisible: is_seg_visible for a player whose angle is anything from   *)
(* -360 to 720 degrees (Thing.angle_facing is an i16 of degrees turned     *)
(* into radians, wad.rs line 326, and run copies it into player.angle) and *)
(* two vertices in any direction from the player.                          *)
Facings == (0 - 2 * PI)..(4 * PI)

\* atan2 gives an angle in (-pi, pi]
Atan2Values == (1 - PI)..PI

InitVisible ==
    /\ overflow_checks = Unused
    /\ pc = "call"
    /\ player \in {[angle |-> t] : t \in Facings}
    /\ atan \in Atan2Values \X Atan2Values
    /\ visible = NONE
    /\ node_count = Unused /\ subsectors = Unused /\ map_nodes = Unused
    /\ nodes = Unused /\ level = Unused /\ query = Unused
    /\ this = Unused /\ arg = Unused /\ behind = Unused
    /\ bytes = Unused /\ child = Unused
    /\ debug_assertions = Unused /\ file = Unused /\ directory = Unused
    /\ lump_idx = Unused /\ cur = Unused /\ wad_levels = Unused
    /\ disk = Unused /\ level_data = Unused /\ assembled = Unused /\ bbox = Unused
    /\ lump_name = Unused
    /\ wad = Unused /\ interface = Unused /\ panic_message = Unused
    /\ current_level = Unused

IsSegVisible ==
    /\ pc = "call"
    /\ visible' = is_seg_visible(player, atan[1], atan[2])
    /\ pc' = "return"
    /\ UNCHANGED <<overflow_checks, atan, treeVars, behindVars, childVars, loadVars,
                   asmVars, bboxVars, nameVars, uiVars>>

NextVisible == IsSegVisible

SpecVisible == InitVisible /\ [][NextVisible]_vars

-----------------------------------------------------------------------------
(* Properties of the point location, checked under Spec. *)

Located == pc = "presented"

\* the steps of a descent on the raw tree follow the rule "behind: left child,
\* not behind: right child", start at the root and are linked
RawDescent(st) ==
    /\ Len(st) >= 1 => st[1].node = nodes.node
    /\ \A i \in 1..Len(st) :
          /\ Ok(st[i].behind) = is_point_behind(st[i].node, player.x, player.y, overflow_checks)
          /\ st[i].child = IF st[i].behind THEN st[i].node.left_child
                                           ELSE st[i].node.right_child
          /\ i < Len(st) => st[i].child.kind = "NODE" /\ st[i + 1].node = st[i].child.node

\* the same on the assembled tree, whose steps hold keys of Level.nodes
LevelDescent(st) ==
    /\ Len(st) >= 1 => st[1].node = level.root_node
    /\ \A i \in 1..Len(st) :
          /\ Ok(st[i].behind) = is_point_behind(level.nodes[st[i].node], player.x, player.y,
                                                overflow_checks)
          /\ st[i].child = IF st[i].behind THEN level.nodes[st[i].node].left_child
                                           ELSE level.nodes[st[i].node].right_child
          /\ i < Len(st) => st[i].child.kind = "NODE" /\ st[i + 1].node = st[i].child.rc

\* what a completed descent returns: the subsector its last step went to
ReturnsLastLeaf(out) ==
    out.status = "ok" =>
        /\ Len(out.steps) >= 1
        /\ out.child = out.steps[Len(out.steps)].child
        /\ out.child.kind = "SUBSECTOR"

\* C1: at every node that find (raw tree) or _find (assembled tree) reaches,
\* the descent goes to that node's left child when is_point_behind is true and
\* to its right child otherwise, and the value returned is the subsector leaf
\* at the end of that path.
C1_DescentFollowsBehind ==
    /\ (Located /\ query.op = "find") =>
           RawDescent(query.out.steps) /\ ReturnsLastLeaf(query.out)
    /\ (Located /\ query.op = "_find") =>
           LevelDescent(query.out.steps) /\ ReturnsLastLeaf(query.out)

\* a two-step descent of find that went left (behind) and then right
C1_Witness ==
    /\ Located /\ query.op = "find" /\ query.out.status = "ok"
    /\ Len(query.out.steps) = 2
    /\ query.out.steps[1].behind /\ ~query.out.steps[2].behind
    /\ query.out.steps[1].child = nodes.node.left_child
    /\ query.out.child = nodes.node.left_child.node.right_child

\* C2: on every level that load_from and Level::new build without a fatal
\* error, find and _find return, for every point, a subsector of the level:
\* no panic, no failure.
C2_LocateNeverFails ==
    (Located /\ query.op \in {"find", "_find"}) =>
        /\ query.out.status = "ok"
        /\ query.out.child.kind = "SUBSECTOR"
        /\ LET s == IF query.op = "find" THEN query.out.child.ss ELSE query.out.child.rc
           IN  InVec(s, subsectors)

\* the entity of the assembled graph that a raw child tag names
Named(c) == IF c.kind = "Node" THEN ChildRcNode(c.idx) ELSE ChildRcSubsector(c.idx)

\* C3: the assembled tree has the shape of the raw node data (left child from
\* the left_child tag, right child from the right_child tag), so find on the
\* raw tree and _find on the assembled tree reach the same subsector index.
C3_AssembledShapeIsRawShape ==
    /\ level.status = "ok" =>
          \A k \in DOMAIN level.nodes :
              /\ level.nodes[k].left_child = Named(map_nodes[k + 1].left_child)
              /\ level.nodes[k].right_child = Named(map_nodes[k + 1].right_child)
    /\ (Located /\ query.op = "find" /\ query.out.status = "ok") =>
          LET f == _find(level.nodes, level.root_node, player.x, player.y, overflow_checks)
          IN  f.status = "ok" /\ f.child.rc = query.out.child.ss

\* the number of nodes on the longest path from node k to a leaf
RECURSIVE Height(_, _)
Height(ns, k) ==
    LET h(c) == IF c.kind = "NODE" THEN Height(ns, c.rc) ELSE 0
        l == h(ns[k].left_child)
        r == h(ns[k].right_child)
    IN  1 + (IF l > r THEN l ELSE r)

\* C4: find_partial descends as _find does: with levels at least the depth of
\* the tree it returns the subsector _find returns, with fewer levels a node on
\* the path _find takes.
C4_PartialFollowsFind ==
    (Located /\ query.op = "find_partial" /\ query.levels >= 1 /\ query.out.status = "ok") =>
        LET f == _find(level.nodes, level.root_node, player.x, player.y, overflow_checks)
        IN  /\ f.status = "ok"
            /\ IF query.levels >= Height(level.nodes, level.root_node)
               THEN query.out.child = f.child
               ELSE \E i \in 1..Len(f.steps) : query.out.child = f.steps[i].child

\* C5: find_partial(x, y, 0) returns the root itself: it takes no step into a
\* child and does not fail.
C5_PartialZeroIsRoot ==
    (Located /\ query.op = "find_partial" /\ query.levels = 0) =>
        /\ query.out.status = "ok"
        /\ query.out.steps = <<>>
        /\ query.out.child = ChildRcNode(level.root_node)

\* the steps of find_partial: "not behind: left child, behind: right child"
PartialDescent(st) ==
    /\ Len(st) >= 1 => st[1].node = level.root_node
    /\ \A i \in 1..Len(st) :
          /\ Ok(st[i].behind) = is_point_behind(level.nodes[st[i].node], player.x, player.y,
                                                overflow_checks)
          /\ st[i].child = IF st[i].behind THEN level.nodes[st[i].node].right_child
                                           ELSE level.nodes[st[i].node].left_child
          /\ i < Len(st) => st[i].child.kind = "NODE" /\ st[i + 1].node = st[i].child.rc

\* C6: for levels >= 1 find_partial returns after exactly `levels` steps with
\* the node or subsector reached there, or earlier with the subsector leaf its
\* path ends in.  The only call that does not return is one in which
\* is_point_behind panics on the node the descent stands on.
C6_PartialStopsAtLevels ==
    (Located /\ query.op = "find_partial" /\ query.levels >= 1) =>
        LET st == query.out.steps
            n  == Len(st)
        IN  /\ PartialDescent(st)
            /\ query.out.status = "ok" =>
                  /\ n >= 1 /\ query.out.child = st[n].child
                  /\ \/ n = query.levels
                     \/ n < query.levels /\ query.out.child.kind = "SUBSECTOR"
            /\ query.out.status = "panic" =>
                  /\ n < query.levels
                  /\ LET at == IF n = 0 THEN level.root_node ELSE st[n].child.rc
                     IN  is_point_behind(level.nodes[at], player.x, player.y,
                                         overflow_checks) = PANIC

\* find_partial stopped by its levels argument on an inner node
C6_Witness ==
    /\ Located /\ query.op = "find_partial" /\ query.levels = 1
    /\ query.out.status = "ok"
    /\ Len(query.out.steps) = 1
    /\ query.out.child.kind = "NODE"

-----------------------------------------------------------------------------
(* Properties of is_point_behind, checked under SpecBehind. *)

ReturnedBehind == pc = "return" /\ behind # NONE

\* C7: with delta_x = 0 the point is behind exactly when x <= partition_x and
\* delta_y > 0, or x > partition_x and delta_y < 0, whatever y is; with
\* delta_y = 10 and partition_x = 100, x = 99 is behind and x = 101 is not.
C7_VerticalPartition ==
    (ReturnedBehind /\ this.delta_x = 0) =>
        /\ behind = Ok(\/ arg.x <= this.partition_x /\ this.delta_y > 0
                       \/ arg.x > this.partition_x /\ this.delta_y < 0)
        /\ (this.delta_y = 10 /\ this.partition_x = 100 /\ arg.x = 99) => behind = Ok(TRUE)
        /\ (this.delta_y = 10 /\ this.partition_x = 100 /\ arg.x = 101) => behind = Ok(FALSE)

\* the side-of-line fixture with the point on the behind side
C7_Witness ==
    /\ ReturnedBehind
    /\ this.delta_x = 0 /\ this.delta_y = 10 /\ this.partition_x = 100
    /\ arg.x = 99 /\ arg.y = I16_MIN
    /\ behind = Ok(TRUE)

\* C8: with delta_y = 0 and delta_x # 0 the point is behind exactly when
\* y <= partition_y and delta_x < 0, or y > partition_y and delta_x > 0,
\* whatever x is.
C8_HorizontalPartition ==
    (ReturnedBehind /\ this.delta_y = 0 /\ this.delta_x # 0) =>
        behind = Ok(\/ arg.y <= this.partition_y /\ this.delta_x < 0
                    \/ arg.y > this.partition_y /\ this.delta_x > 0)

\* a point on a horizontal partition line that runs towards negative x
C8_Witness ==
    /\ ReturnedBehind
    /\ this.delta_y = 0 /\ this.delta_x < 0
    /\ arg.y = this.partition_y
    /\ behind = Ok(TRUE)

\* C9: with delta_x # 0 and delta_y # 0 the answer is the sign test
\* delta_x*(y - partition_y) - delta_y*(x - partition_x) > 0 in exact integer
\* arithmetic, for all 16-bit inputs.  (The difference of the two products is
\* compared as product > product, which is the same test.)
C9_ExactCrossProduct ==
    (ReturnedBehind /\ this.delta_x # 0 /\ this.delta_y # 0) =>
        behind = Ok(this.delta_x * (arg.y - this.partition_y)
                        > this.delta_y * (arg.x - this.partition_x))

-----------------------------------------------------------------------------
(* Properties of get_child, checked under SpecChild. *)

\* C10: a tag v with bit 15 clear is Node(v); with bit 15 set it is
\* Subsector(v with bit 15 cleared), except 0xFFFF, which is Subsector(0).
\* 0x0005 is Node(5), 0x8005 is Subsector(5), 0xFFFF is Subsector(0).
C10_ChildTagDecoding ==
    (pc = "return" /\ child # NONE) =>
        LET v == bytes[1] + 256 * bytes[2]
        IN  /\ v < 32768 => child = ChildIdxNode(v)
            /\ (v >= 32768 /\ v # 65535) => child = ChildIdxSubsector(v - 32768)
            /\ v = 65535 => child = ChildIdxSubsector(0)
            /\ bytes = <<5, 0>> => child = ChildIdxNode(5)
            /\ bytes = <<5, 128>> => child = ChildIdxSubsector(5)
            /\ bytes = <<255, 255>> => child = ChildIdxSubsector(0)

\* the all-ones tag decoded
C10_Witness ==
    pc = "return" /\ bytes = <<255, 255>> /\ child = ChildIdxSubsector(0)

-----------------------------------------------------------------------------
(* Properties of the two node trees against the decoded array, under Spec. *)

SamePartition(n, rec) ==
    /\ n.partition_x = rec.partition_x /\ n.partition_y = rec.partition_y
    /\ n.delta_x = rec.delta_x /\ n.delta_y = rec.delta_y

\* the raw node is built from record rec: it carries its partition line, and
\* each child is what the tag on that side names in the file-order array
RECURSIVE RawBuiltFrom(_, _)
RawBuiltFrom(n, rec) ==
    LET named(c, tag) ==
            IF tag.kind = "Node"
            THEN /\ c.kind = "NODE"
                 /\ InVec(tag.idx, Len(map_nodes))
                 /\ RawBuiltFrom(c.node, map_nodes[tag.idx + 1])
            ELSE /\ InVec(tag.idx, subsectors)
                 /\ c = ChildSUBSECTOR(tag.idx)
    IN  /\ SamePartition(n, rec)
        /\ named(n.left_child, rec.left_child)
        /\ named(n.right_child, rec.right_child)

-----------------------------------------------------------------------------
(* Properties of load_from, checked under SpecLoad. *)

\* a map marker: E, an episode digit 1-4, M, one mission digit
IsMapMarker(name) ==
    /\ Len(name) = 4
    /\ name[1] = "E" /\ name[2] \in {"1", "2", "3", "4"}
    /\ name[3] = "M" /\ name[4] \in Digit

\* the directory indexes of the map markers, in directory order
MarkerEntries ==
    SelectSeq([i \in 1..Len(directory) |-> i - 1],
              LAMBDA i : IsMapMarker(directory[i + 1].name))

\* C12: the WadFile returned holds exactly one level per directory entry whose
\* name is a map marker, in directory order, each made of the ten entries after
\* its marker taken in the fixed order THINGS .. BLOCKMAP; an entry whose name
\* is not a map marker starts no level.
C12_OneLevelPerMarker ==
    pc = "returned" =>
        /\ Len(wad_levels) = Len(MarkerEntries)
        /\ \A k \in 1..Len(MarkerEntries) :
              /\ wad_levels[k].marker = MarkerEntries[k]
              /\ wad_levels[k].lumps = [s \in 1..Len(LumpNames) |-> MarkerEntries[k] + s]

\* C13: no lump is ever decoded as a lump of another kind, in a level under
\* construction or in a level of the WadFile: an entry that does not carry the
\* name expected at its position ends the load in a fatal error.
C13_MismatchIsFatal ==
    /\ \A k \in 1..Len(wad_levels) :
          \A s \in 1..Len(LumpNames) :
              directory[wad_levels[k].lumps[s] + 1].name = LumpNames[s]
    /\ cur # NONE =>
          \A s \in 1..Len(cur.lumps) : directory[cur.lumps[s] + 1].name = LumpNames[s]

\* C14: a WadFile is returned only when the header, the directory and every
\* directory entry lie inside the buffer.
C14_OutOfRangeAborts ==
    pc = "returned" =>
        /\ file.len >= HEADER_SIZE
        /\ 0 <= file.dir_offset
        /\ file.dir_offset + ENTRY_SIZE * file.num_lumps <= file.len
        /\ \A i \in 1..Len(directory) :
              /\ 0 <= directory[i].file_pos
              /\ directory[i].file_pos + directory[i].size <= file.len

-----------------------------------------------------------------------------
(* Properties of the assembled entity graph, checked under SpecAssembly. *)

GraphAssembled == pc = "assembled" /\ assembled # NONE

\* C15: a linedef whose right or left sidedef field is 65535 on disk is
\* assembled with that sidedef absent; a field holding an index inside the
\* sidedef array is assembled with a reference to exactly that sidedef.
C15_SentinelIsAbsent ==
    GraphAssembled =>
        \A i \in 1..Len(disk.linedefs) :
            LET as_read(d, a) ==
                    /\ d = SENTINEL => a = None
                    /\ d < Len(disk.sidedefs) => a = Some(d)
            IN  /\ as_read(disk.linedefs[i].right_sidedef, assembled.linedefs[i].right_sidedef)
                /\ as_read(disk.linedefs[i].left_sidedef, assembled.linedefs[i].left_sidedef)

\* C16: a Level is assembled only when every cross-reference on disk is in
\* range of its target array or is the sidedef sentinel 65535: the sector of
\* each sidedef, the right and left sidedef of each linedef, the linedef of
\* each segment and the segment range of each subsector.
C16_OutOfRangeIsFatal ==
    GraphAssembled =>
        /\ \A i \in 1..Len(disk.sidedefs) : disk.sidedefs[i].sector < disk.sectors
        /\ \A i \in 1..Len(disk.linedefs) :
              /\ disk.linedefs[i].right_sidedef = SENTINEL
                 \/ disk.linedefs[i].right_sidedef < Len(disk.sidedefs)
              /\ disk.linedefs[i].left_sidedef = SENTINEL
                 \/ disk.linedefs[i].left_sidedef < Len(disk.sidedefs)
        /\ \A i \in 1..Len(disk.segs) : disk.segs[i].linedef < Len(disk.linedefs)
        /\ \A i \in 1..Len(disk.subsectors) :
              disk.subsectors[i].first_segment + disk.subsectors[i].segment_count
                  <= Len(disk.segs)

\* C17: in a Level that Level::new returned, start_vert and end_vert of every
\* linedef and of every segment are smaller than the number of vertexes.
C17_VertexIndexesInRange ==
    GraphAssembled =>
        /\ \A i \in 1..Len(assembled.linedefs) :
              /\ InVec(assembled.linedefs[i].start_vert, assembled.vertexes)
              /\ InVec(assembled.linedefs[i].end_vert, assembled.vertexes)
        /\ \A i \in 1..Len(assembled.segments) :
              /\ InVec(assembled.segments[i].start_vert, assembled.vertexes)
              /\ InVec(assembled.segments[i].end_vert, assembled.vertexes)

\* C18: in every assembled Level a present right or left sidedef of a linedef
\* is the Level's sidedef at the raw index, the sector of that sidedef is the
\* Level's sector at the sidedef's raw sector index, and the linedef of every
\* segment is the Level's linedef at the segment's raw linedef index.
C18_ReferentialIntegrity ==
    GraphAssembled =>
        /\ \A i \in 1..Len(assembled.linedefs) :
              LET shared(raw, a) ==
                      a.some =>
                          /\ a.rc = raw
                          /\ InVec(a.rc, Len(assembled.sidedefs))
                          /\ assembled.sidedefs[a.rc + 1].sector = level_data.sidedefs[a.rc + 1].sector
                          /\ InVec(assembled.sidedefs[a.rc + 1].sector, assembled.sectors)
              IN  /\ shared(level_data.linedefs[i].right_sidedef, assembled.linedefs[i].right_sidedef)
                  /\ shared(level_data.linedefs[i].left_sidedef, assembled.linedefs[i].left_sidedef)
        /\ \A i \in 1..Len(assembled.segments) :
              /\ assembled.segments[i].linedef = level_data.segs[i].linedef
              /\ InVec(assembled.segments[i].linedef, Len(assembled.linedefs))

\* a linedef with both sidedefs present, the right one not the first sidedef
\* and facing a sector that is not the first, and a segment along that linedef
C18_Witness ==
    /\ GraphAssembled
    /\ \E i \in 1..Len(assembled.linedefs) :
          /\ assembled.linedefs[i].right_sidedef = Some(1)
          /\ assembled.linedefs[i].left_sidedef = Some(0)
          /\ assembled.sidedefs[2].sector = 1
          /\ \E j \in 1..Len(assembled.segments) : assembled.segments[j].linedef = i - 1 /\ i > 1

\* C19: every assembled subsector holds exactly the segments at positions
\* first_segment, first_segment + 1, .., first_segment + segment_count - 1 of
\* the Level's segment array, in that order: segment_count of them.
C19_SubsectorHoldsItsRange ==
    GraphAssembled =>
        \A j \in 1..Len(assembled.subsectors) :
            LET raw == level_data.subsectors[j]
                a   == assembled.subsectors[j]
            IN  /\ a.segment_count = raw.segment_count
                /\ Len(a.segments) = raw.segment_count
                /\ \A k \in 1..Len(a.segments) :
                      /\ a.segments[k] = raw.first_segment + k - 1
                      /\ InVec(a.segments[k], Len(assembled.segments))

-----------------------------------------------------------------------------
(* Properties of get_bbox, checked under SpecBBox. *)

\* the signed 16-bit number whose little-endian bytes are bytes[k], bytes[k + 1]
FieldAt(k) ==
    LET u == bytes[k] + 256 * bytes[k + 1]
    IN  IF u >= 32768 THEN u - 65536 ELSE u

\* C20: get_bbox reads top, bottom, left, right as four consecutive
\* little-endian i16 fields in that order and returns a BBox with the same top
\* and left, width = right - left and height = top - bottom, for every
\* combination of 16-bit field values.
C20_BBoxFromFourFields ==
    (pc = "return" /\ bbox # NONE) =>
        bbox = Ok([left |-> FieldAt(5), top |-> FieldAt(1),
                   width |-> FieldAt(7) - FieldAt(5),
                   height |-> FieldAt(1) - FieldAt(3)])

-----------------------------------------------------------------------------
(* Properties of the fixed-width names, checked under SpecName. *)

\* the bytes of the field that come before its first zero byte
BeforeNul(b) ==
    LET k == CHOOSE j \in 0..Len(b) :
                 /\ \A h \in 1..j : b[h] # 0
                 /\ j = Len(b) \/ b[j + 1] = 0
    IN SubSeq(b, 1, k)

\* the number of characters of a well-formed UTF-8 text
Chars(s) == Cardinality({j \in 1..Len(s) : s[j] < 128 \/ s[j] > 191})

\* C21: get_8char_string returns the bytes before the first zero byte of the
\* field, all 8 when there is none, when they are valid text and the
\* placeholder "????" when they are not; it always returns, and the result
\* holds no NUL and at most 8 characters.
C21_NameBeforeNul ==
    pc = "return" =>
        /\ lump_name = IF from_utf8_is_ok(BeforeNul(bytes), 1)
                       THEN BeforeNul(bytes) ELSE QUESTION_MARKS
        /\ \A j \in 1..Len(lump_name) : lump_name[j] # 0
        /\ Chars(lump_name) <= 8

\* a field whose bytes before the zero are not valid text gave the placeholder
C21_Witness ==
    /\ pc = "return"
    /\ bytes[1] = 65 /\ bytes[2] = 195 /\ bytes[3] = 0 /\ bytes[4] = 65
    /\ lump_name = QUESTION_MARKS

-----------------------------------------------------------------------------
(* Properties of the viewer, checked under SpecInterface. *)

\* run has taken a level of the WAD: level refers to wad.levels[level]
Viewed == pc # "main" /\ Len(wad.levels) > 0

\* the map has no Thing of type 1
NoPlayerStart(lv) == \A i \in DOMAIN lv.things : lv.things[i].thing_type # 1

\* C22: when run starts on, or switches to, a map that has no Thing of type 1,
\* what ends the viewing is an error of its own that names the missing player
\* start, not a panic.
C22_MissingStartIsNamed ==
    (Viewed /\ NoPlayerStart(wad.levels[level + 1])) =>
        /\ pc = "fatal"
        /\ panic_message.status = "error"

-----------------------------------------------------------------------------
(* Properties of the visibility test, checked under SpecVisible. *)

\* the bearing of a vertex, in [0, 2 pi)
Bearing(k) == atan[k] % (2 * PI)

\* the angle from direction b clockwise to direction a, in [0, 2 pi)
LeftOf(a, b) == (a - b) % (2 * PI)

\* the player's angle is in [0, 2 pi)
FacingInRange == player.angle >= 0 /\ player.angle < 2 * PI

\* the facing direction lies strictly between the bearing of the first vertex,
\* on its left, and the bearing of the second, on its right, less than pi apart
CenteredInFront ==
    /\ LeftOf(Bearing(1), Bearing(2)) < PI
    /\ LeftOf(Bearing(1), player.angle) > 0
    /\ LeftOf(player.angle, Bearing(2)) > 0
    /\ LeftOf(Bearing(1), player.angle) + LeftOf(player.angle, Bearing(2))
           = LeftOf(Bearing(1), Bearing(2))

\* C23: for every facing angle in [0, 2 pi), a segment centered in front of
\* the viewer (the facing angle between the bearings of its two vertices, which
\* are less than pi apart) is reported visible, also when the two bearings lie
\* on the two sides of the direction 0.
C23_CenteredIsVisible ==
    (pc = "return" /\ FacingInRange /\ CenteredInFront) => visible # NONE

\* the angle between two directions, in [0, pi]
AngleBetween(a, b) ==
    IF LeftOf(a, b) <= PI THEN LeftOf(a, b) ELSE 2 * PI - LeftOf(a, b)

\* C24: for every facing angle, a segment both of whose vertices have a
\* bearing more than pi/2 away from the facing direction is not reported
\* visible: is_seg_visible returns None.
C24_BehindIsNotVisible ==
    (/\ pc = "return"
     /\ AngleBetween(Bearing(1), player.angle) > FRAC_PI_2
     /\ AngleBetween(Bearing(2), player.angle) > FRAC_PI_2) => visible = NONE

\* the direction a lies inside the field of view, its two edges included
InFov(a) == AngleBetween(a, player.angle) <= FRAC_PI_4

\* C25: when is_seg_visible returns a range (a1, a2), a1 is the bearing of the
\* first vertex if that bearing is inside the field of view and the left edge
\* player.angle + pi/4 if not, a2 is the bearing of the second vertex if that
\* bearing is inside the field of view and the right edge player.angle - pi/4
\* if not, and the range from a2 up to a1 lies inside the field of view.
C25_RangeClippedToFov ==
    (pc = "return" /\ visible # NONE) =>
        /\ visible.a1 = IF InFov(Bearing(1)) THEN Bearing(1)
                        ELSE player.angle + FRAC_PI_4
        /\ visible.a2 = IF InFov(Bearing(2)) THEN Bearing(2)
                        ELSE player.angle - FRAC_PI_4
        /\ InFov(visible.a1) /\ InFov(visible.a2)
        /\ LeftOf(visible.a1, visible.a2) <= FRAC_PI_2

\* the Player at the player start of a level: its first Thing of type 1
StartPose(lv) ==
    LET first == CHOOSE i \in DOMAIN lv.things :
                     /\ lv.things[i].thing_type = 1
                     /\ \A j \in 1..(i - 1) : lv.things[j].thing_type # 1
    IN [x |-> lv.things[first].x, y |-> lv.things[first].y,
        angle |-> lv.things[first].angle_facing, moves |-> <<>>]

\* the last index of wad.levels
LastLevel == Len(wad.levels) - 1

\* what a level switch leaves: the level viewed is wad.levels[current_level],
\* and the player is at its player start when the switch went through
SwitchedTo(idx) ==
    /\ current_level' = idx
    /\ level' = idx
    /\ pc' = "events" => player' = StartPose(wad.levels[idx + 1])

\* C26: once a level is loaded and viewed, current_level is in
\* 0..level_count-1 and the level viewed is wad.levels[current_level]; a Period
\* event moves to the next level and stays at the last one, a Comma event moves
\* to the previous level and stays at 0, and each puts the player at the
\* player start of the level it switched to.
C26_LevelSwitchSaturates ==
    /\ [](Viewed => (current_level \in 0..LastLevel /\ level = current_level))
    /\ [][/\ KeyDownPeriod =>
                SwitchedTo(IF current_level = LastLevel THEN LastLevel
                           ELSE current_level + 1)
          /\ KeyDownComma =>
                SwitchedTo(IF current_level = 0 THEN 0 ELSE current_level - 1)]_vars

\* the player walked, then the view was switched to the second and last level
\* and the player is at its start
C26_Witness ==
    /\ pc = "events"
    /\ Len(wad.levels) = 2 /\ current_level = 1 /\ level = 1
    /\ interface.state = "Viewing" /\ "Up" \in interface.pressed_keys
    /\ player = StartPose(wad.levels[2])

\* C27: a tick that handle_input processes in the state Paused leaves x, y and
\* angle of the player as they were, whatever keys are held; a tick of
\* handle_input changes the pose only when it is processed in the state
\* Playing or Viewing.
C27_PoseFixedWhilePaused ==
    [][HandleInput =>
          /\ interface.state = "Paused" => player' = player
          /\ player' # player => interface.state \in {"Playing", "Viewing"}]_vars

\* the player stepped back, the view was paused, and a tick with Up and Right
\* held, and P released, has left the pose with that one step
C27_Witness ==
    /\ pc = "events"
    /\ interface.state = "Paused"
    /\ interface.pressed_keys = {"Up", "Right"}
    /\ player.moves = <<"Down">>

\* C28: the interface is never in TitleScreen or GameOver; its state changes
\* exactly on the ticks where P is held and was not held on the tick before
\* (so a P held over several ticks changes it once), and then from Viewing or
\* Playing to Paused or from Paused to Playing: Viewing is not entered again.
C28_PauseIsEdgeTriggered ==
    /\ [](interface.state \in {"Viewing", "Playing", "Paused"})
    /\ [][/\ interface'.state # interface.state
                <=> ("P" \in interface'.pressed_keys /\ "P" \notin interface.pressed_keys)
          /\ interface'.state # interface.state =>
                \/ interface.state \in {"Viewing", "Playing"} /\ interface'.state = "Paused"
                \/ interface.state = "Paused" /\ interface'.state = "Playing"]_vars

\* the view was paused and taken up again, and P is still held
C28_Witness ==
    /\ pc = "events"
    /\ interface.state = "Playing"
    /\ interface.pressed_keys = {"P"}

-----------------------------------------------------------------------------
(* Property of the node pass, checked under Spec. *)

\* the two children of a record or of a node
ChildrenOf(r) == {r.left_child, r.right_child}

\* record i of the array (the first is record 0) names itself or a later
\* record as a child
RefersForward(mn, i) ==
    \E c \in ChildrenOf(mn[i + 1]) : c.kind = "Node" /\ c.idx >= i

\* C29: in a Level that Level::new returned, every child of a node that is a
\* node is the node of an earlier record of the array, so following children
\* from any node ends after finitely many steps and never comes back; when a
\* record names itself or a later record as a child, Level::new does not
\* return.
C29_NodeTreeAcyclic ==
    /\ [](level.status = "ok" =>
             \A k \in DOMAIN level.nodes :
                 \A c \in ChildrenOf(level.nodes[k]) :
                     c.kind = "NODE" => (c.rc \in DOMAIN level.nodes /\ c.rc < k))
    /\ [][(LevelNew /\ \E i \in 0..(Len(map_nodes) - 1) : RefersForward(map_nodes, i))
             => (pc' = "fatal" /\ level' = PANIC)]_vars

\* Level::new returned a Level whose root has the node of record 0 as a child
C29_Witness ==
    /\ level.status = "ok"
    /\ level.root_node = 1
    /\ \E c \in ChildrenOf(level.nodes[1]) : c.kind = "NODE" /\ c.rc = 0

=============================================================================
